---- MODULE Spec2Model ----
(***************************************************************************)
(* Academic Affiliation Checker: the identity verifier, the direct and     *)
(* indirect affiliation checks and the per-candidate pipeline.             *)
(*                                                                         *)
(* Python strings are sequences of one-character strings, so that          *)
(* lower(), strip(), split(), replace(), "in" and the regular-expression   *)
(* substitutions are computed character by character.  Python values that  *)
(* may be None, absent or of another type are tagged records (PyStr,       *)
(* PyNone, PyInt, PyList, PyDict).                                         *)
(***************************************************************************)
EXTENDS Integers, Sequences, FiniteSets, TLC

VARIABLES
    pc,             \* position of the program (pipeline) or of the call harness
    i,              \* run_background_check: index of the candidate being processed
    row,            \* process_candidate: the input row of the current candidate
    author_data,    \* process_candidate: result of get_author_profile
    works,          \* process_candidate: result of get_author_works
    verdict,        \* process_candidate: (is_verified, verify_reason), or NoValue
    calls,          \* process_candidate: names of the functions called so far
    df,             \* the result columns Flag / Affiliation_Type / Flag_Evidence per row
    ret,            \* return value of process_candidate for the current candidate
    counts,         \* run_background_check: flagged_count, direct_count, indirect_count
    args,           \* call harness: the arguments of the function under check
    out             \* call harness: the value returned by the function under check

vars == <<pc, i, row, author_data, works, verdict, calls, df, ret, counts, args, out>>

----------------------------------------------------------------------------
(* Characters and strings                                                  *)

UpperCase == <<"A","B","C","D","E","F","G","H","I","J","K","L","M",
               "N","O","P","Q","R","S","T","U","V","W","X","Y","Z">>

LowerCase == <<"a","b","c","d","e","f","g","h","i","j","k","l","m",
               "n","o","p","q","r","s","t","u","v","w","x","y","z">>

DigitChars == <<"0","1","2","3","4","5","6","7","8","9">>

Range(q) == {q[k] : k \in 1..Len(q)}

\* \s of the regular expressions, and what split() and strip() treat as blank
Whitespace == {" ", "\t"}

\* \w of the regular expressions
WordChars == Range(UpperCase) \cup Range(LowerCase) \cup Range(DigitChars) \cup {"_"}

lower_char(c) ==
    IF c \in Range(UpperCase)
    THEN LowerCase[CHOOSE k \in 1..Len(UpperCase) : UpperCase[k] = c]
    ELSE c

\* str.lower()
lower(s) == [k \in 1..Len(s) |-> lower_char(s[k])]

\* str.strip()
strip(s) ==
    LET solid == {k \in 1..Len(s) : s[k] \notin Whitespace}
    IN IF solid = {} THEN << >>
       ELSE SubSeq(s, CHOOSE k \in solid : \A m \in solid : k <= m,
                      CHOOSE k \in solid : \A m \in solid : k >= m)

\* p in s
contains(s, p) ==
    \E k \in 0..(Len(s) - Len(p)) : SubSeq(s, k + 1, k + Len(p)) = p

\* s.startswith(p)
startswith(s, p) == Len(p) <= Len(s) /\ SubSeq(s, 1, Len(p)) = p

\* s.replace(old, new) for a non-empty old: leftmost non-overlapping occurrences
RECURSIVE replace(_, _, _)
replace(s, old, new) ==
    IF Len(s) < Len(old) THEN s
    ELSE IF startswith(s, old)
         THEN new \o replace(SubSeq(s, Len(old) + 1, Len(s)), old, new)
         ELSE <<s[1]>> \o replace(Tail(s), old, new)

\* s.split(sep) for a one-character sep: empty pieces are kept
RECURSIVE split_on(_, _)
split_on(s, sep) ==
    LET hits == {k \in 1..Len(s) : s[k] = sep}
    IN IF hits = {} THEN <<s>>
       ELSE LET k == CHOOSE h \in hits : \A m \in hits : h <= m
            IN <<SubSeq(s, 1, k - 1)>> \o split_on(SubSeq(s, k + 1, Len(s)), sep)

\* s.split(): the maximal runs of non-blank characters
RECURSIVE split(_)
split(s) ==
    LET t == strip(s)
        blanks == {k \in 1..Len(t) : t[k] \in Whitespace}
    IN IF t = << >> THEN << >>
       ELSE IF blanks = {} THEN <<t>>
       ELSE LET k == CHOOSE h \in blanks : \A m \in blanks : h <= m
            IN <<SubSeq(t, 1, k - 1)>> \o split(SubSeq(t, k + 1, Len(t)))

\* sep.join(parts)
RECURSIVE join(_, _)
join(sep, parts) ==
    IF parts = << >> THEN << >>
    ELSE IF Len(parts) = 1 THEN parts[1]
    ELSE parts[1] \o sep \o join(sep, Tail(parts))

\* str(n) of an integer
RECURSIVE digits_of(_)
digits_of(n) ==
    IF n < 10 THEN <<DigitChars[n + 1]>>
    ELSE digits_of(n \div 10) \o <<DigitChars[(n % 10) + 1]>>

int_to_str(n) == IF n < 0 THEN <<"-">> \o digits_of(0 - n) ELSE digits_of(n)

----------------------------------------------------------------------------
(* Python values                                                           *)

PyNone == [t |-> "none"]
PyStr(s) == [t |-> "str", v |-> s]
PyInt(n) == [t |-> "int", v |-> n]
PyList(q) == [t |-> "list", v |-> q]
PyDict(f) == [t |-> "dict", v |-> f]

\* a dict with no key
EmptyDict == PyDict([k \in {} |-> PyNone])

\* bool(x): None, "", 0, [] and {} are false
truthy(x) ==
    CASE x.t = "none" -> FALSE
      [] x.t = "str"  -> x.v # << >>
      [] x.t = "int"  -> x.v # 0
      [] x.t = "list" -> x.v # << >>
      [] x.t = "dict" -> DOMAIN x.v # {}

\* d.get(key, default)
get(d, key, default) == IF key \in DOMAIN d.v THEN d.v[key] ELSE default

\* (x or default)
py_or(x, default) == IF truthy(x) THEN x ELSE default

\* isinstance(x, dict)
is_dict(x) == x.t = "dict"

\* str(x), and {x} inside an f-string
py_str(x) ==
    CASE x.t = "none" -> <<"N","o","n","e">>
      [] x.t = "str"  -> x.v
      [] x.t = "int"  -> int_to_str(x.v)

\* a value for "no value here" in the state
NoValue == [t |-> "novalue"]

----------------------------------------------------------------------------
(* src/src/config.py                                                       *)

\* COUNTRY_NAMES, as (code, name) pairs
COUNTRY_NAMES == <<
    << <<"I","L">>, <<"I","s","r","a","e","l">> >>, << <<"I","R">>, <<"I","r","a","n">> >>, << <<"R","U">>, <<"R","u","s","s","i","a">> >>,
    << <<"C","N">>, <<"C","h","i","n","a">> >>, << <<"K","P">>, <<"N","o","r","t","h"," ","K","o","r","e","a">> >>, << <<"S","Y">>, <<"S","y","r","i","a">> >>,
    << <<"C","U">>, <<"C","u","b","a">> >>, << <<"B","Y">>, <<"B","e","l","a","r","u","s">> >>, << <<"V","E">>, <<"V","e","n","e","z","u","e","l","a">> >>,
    << <<"M","M">>, <<"M","y","a","n","m","a","r">> >>, << <<"A","F">>, <<"A","f","g","h","a","n","i","s","t","a","n">> >>, << <<"I","Q">>, <<"I","r","a","q">> >>,
    << <<"L","Y">>, <<"L","i","b","y","a">> >>, << <<"S","D">>, <<"S","u","d","a","n">> >>, << <<"Y","E">>, <<"Y","e","m","e","n">> >>,
    << <<"U","S">>, <<"U","n","i","t","e","d"," ","S","t","a","t","e","s">> >>, << <<"G","B">>, <<"U","n","i","t","e","d"," ","K","i","n","g","d","o","m">> >>,
    << <<"D","E">>, <<"G","e","r","m","a","n","y">> >>, << <<"F","R">>, <<"F","r","a","n","c","e">> >>, << <<"J","P">>, <<"J","a","p","a","n">> >>,
    << <<"K","R">>, <<"S","o","u","t","h"," ","K","o","r","e","a">> >>, << <<"A","U">>, <<"A","u","s","t","r","a","l","i","a">> >>, << <<"C","A">>, <<"C","a","n","a","d","a">> >>,
    << <<"I","N">>, <<"I","n","d","i","a">> >>, << <<"B","R">>, <<"B","r","a","z","i","l">> >>, << <<"I","D">>, <<"I","n","d","o","n","e","s","i","a">> >>,
    << <<"M","Y">>, <<"M","a","l","a","y","s","i","a">> >>, << <<"S","G">>, <<"S","i","n","g","a","p","o","r","e">> >>, << <<"S","A">>, <<"S","a","u","d","i"," ","A","r","a","b","i","a">> >>,
    << <<"A","E">>, <<"U","A","E">> >>, << <<"Q","A">>, <<"Q","a","t","a","r">> >>, << <<"E","G">>, <<"E","g","y","p","t">> >>,
    << <<"T","R">>, <<"T","u","r","k","e","y">> >>, << <<"P","K">>, <<"P","a","k","i","s","t","a","n">> >> >>

\* GENERIC_INSTITUTION_PATTERNS, in list order
GENERIC_INSTITUTION_PATTERNS == <<
    <<"m","i","n","i","s","t","r","y"," ","o","f"," ","e","d","u","c","a","t","i","o","n">>,
    <<"m","i","n","i","s","t","r","y"," ","o","f"," ","s","c","i","e","n","c","e">>,
    <<"m","i","n","i","s","t","r","y"," ","o","f"," ","h","e","a","l","t","h">>,
    <<"m","i","n","i","s","t","r","y"," ","o","f">>,
    <<"d","e","p","a","r","t","m","e","n","t"," ","o","f"," ","e","d","u","c","a","t","i","o","n">>,
    <<"n","a","t","i","o","n","a","l"," ","s","c","i","e","n","c","e"," ","f","o","u","n","d","a","t","i","o","n">>,
    <<"g","o","v","e","r","n","m","e","n","t"," ","o","f">>,
    <<"s","t","a","t","e"," ","c","o","u","n","c","i","l">> >>

----------------------------------------------------------------------------
(* src/src/utils.py                                                        *)

\* The outcome of a call that returns a boolean or raises
Returns(b) == [raised |-> FALSE, value |-> b]
Raises == [raised |-> TRUE, value |-> FALSE]

\* is_generic_institution raises (AttributeError on .lower()) for a truthy
\* name that is not a string
is_generic_institution_raises(institution_name) ==
    truthy(institution_name) /\ institution_name.t # "str"

\* is_generic_institution without the lower(): the patterns are compared
\* case-sensitively
is_generic_institution_case_sensitive(institution_name) ==
    IF ~truthy(institution_name) THEN FALSE
    ELSE \E k \in 1..Len(GENERIC_INSTITUTION_PATTERNS) :
             contains(strip(institution_name.v), GENERIC_INSTITUTION_PATTERNS[k])

\* is_generic_institution with the pattern compared to the whole name
is_generic_institution_whole_name(institution_name) ==
    IF ~truthy(institution_name) THEN FALSE
    ELSE \E k \in 1..Len(GENERIC_INSTITUTION_PATTERNS) :
             strip(lower(institution_name.v)) = GENERIC_INSTITUTION_PATTERNS[k]

\* the loop of is_generic_institution over a list of patterns (lines 26-30):
\* True at the first pattern found in the name, False after the last
RECURSIVE generic_loop(_, _)
generic_loop(patterns, name_lower) ==
    IF patterns = << >> THEN FALSE
    ELSE IF contains(name_lower, Head(patterns)) THEN TRUE
    ELSE generic_loop(Tail(patterns), name_lower)

\* is_generic_institution(institution_name), for None or a string
is_generic_institution(institution_name) ==
    IF ~truthy(institution_name) THEN FALSE
    ELSE LET name_lower == strip(lower(institution_name.v))
         IN \E k \in 1..Len(GENERIC_INSTITUTION_PATTERNS) :
                contains(name_lower, GENERIC_INSTITUTION_PATTERNS[k])

\* re.sub(r'[^\w\s\-]', '', name.lower().strip())
_normalize_name(name) ==
    SelectSeq(strip(lower(name)),
              LAMBDA c : c \in WordChars \cup Whitespace \cup {"-"})

\* the pieces a hyphenated token adds: the token without hyphens and its
\* hyphen-separated parts longer than one character
hyphen_forms(token) ==
    IF "-" \in Range(token)
    THEN {replace(token, <<"-">>, << >>)}
         \cup {p \in Range(split_on(token, "-")) : Len(p) > 1}
    ELSE {}

\* the variants of a normalized name
variants_of(n) == {n} \cup hyphen_forms(n)

_get_name_variants(name) == variants_of(_normalize_name(name))

\* actual_parts of verify_author_name
actual_parts_of(actual_name_normalized) ==
    UNION {{part} \cup hyphen_forms(part) : part \in Range(split(actual_name_normalized))}

\* last_name_match of verify_author_name
last_name_matches(expected_last_variants, actual_parts) ==
    \E exp_last \in expected_last_variants : exp_last \in actual_parts

\* first_name_match after the loop over expected_first_variants
first_name_matches(expected_first_variants, actual_parts) ==
    \E exp_first \in expected_first_variants :
        /\ ~(Len(exp_first) < 2 /\ Cardinality(expected_first_variants) > 1)
        /\ \/ exp_first \in actual_parts
           \/ \E actual_part \in actual_parts :
                  Len(exp_first) >= 3 /\ startswith(actual_part, exp_first)

\* one iteration of the initials loop on a non-empty part
initial_matches(part, expected_first) ==
    \/ Len(part) <= 2 /\ part[1] = expected_first[1]
    \/ part[1] = expected_first[1] /\ 2 * Len(part) > Len(expected_first)

\* The initials loop walks the set actual_parts in hash order, which differs
\* from run to run.  part[0] raises IndexError on the empty part (left by a
\* token made of hyphens only), so the loop ends "match", "nomatch" or
\* "raise" according to which part is met first.
initials_outcomes(actual_parts, expected_first) ==
    LET hits == {p \in actual_parts : p # << >> /\ initial_matches(p, expected_first)}
    IN (IF hits # {} THEN {"match"} ELSE {})
       \cup (IF << >> \in actual_parts THEN {"raise"} ELSE {})
       \cup (IF hits = {} /\ << >> \notin actual_parts THEN {"nomatch"} ELSE {})

\* verify_author_name deciding on the first-name match when the last name
\* does not match
name_outcomes_first_name_suffices(expected_first, expected_first_variants, expected_last_variants, actual_parts) ==
    LET last_name_match == last_name_matches(expected_last_variants, actual_parts)
        loop_match == first_name_matches(expected_first_variants, actual_parts)
        initials ==
            IF ~loop_match /\ Len(expected_first) >= 1
            THEN initials_outcomes(actual_parts, expected_first)
            ELSE {"skipped"}
        decide(first_name_match) ==
            IF Len(replace(expected_first, <<" ">>, << >>)) <= 2 /\ last_name_match
            THEN TRUE
            ELSE last_name_match \/ first_name_match
    IN {IF o = "raise" THEN Raises
        ELSE Returns(decide(loop_match \/ o = "match")) : o \in initials}

\* verify_author_name from the point where the names are normalized and the
\* variants and parts are built (lines 92-142)
name_outcomes(expected_first, expected_first_variants, expected_last_variants, actual_parts) ==
    LET last_name_match == last_name_matches(expected_last_variants, actual_parts)
        loop_match == first_name_matches(expected_first_variants, actual_parts)
        initials ==
            IF ~loop_match /\ Len(expected_first) >= 1
            THEN initials_outcomes(actual_parts, expected_first)
            ELSE {"skipped"}
        decide(first_name_match) ==
            IF Len(replace(expected_first, <<" ">>, << >>)) <= 2 /\ last_name_match
            THEN TRUE
            ELSE last_name_match /\ first_name_match
    IN {IF o = "raise" THEN Raises
        ELSE Returns(decide(loop_match \/ o = "match")) : o \in initials}

\* verify_author_name(expected_first, expected_last, actual_name): the set of
\* outcomes the call can have (one outcome unless the hash order matters).
\* expected_first and expected_last are strings, actual_name a Python value
\* (None or a string).
verify_author_name(expected_first, expected_last, actual_name) ==
    IF ~truthy(actual_name) THEN {Returns(FALSE)}
    ELSE name_outcomes(_normalize_name(expected_first),
                       _get_name_variants(_normalize_name(expected_first)),
                       _get_name_variants(_normalize_name(expected_last)),
                       actual_parts_of(_normalize_name(actual_name.v)))

\* remove_words of _normalize_institution
REMOVE_WORDS == {
    <<"u","n","i","v","e","r","s","i","t","y">>, <<"o","f">>, <<"t","h","e">>, <<"i","n","s","t","i","t","u","t","e">>, <<"c","o","l","l","e","g","e">>,
    <<"s","c","h","o","o","l">>, <<"d","e","p","a","r","t","m","e","n","t">>, <<"f","a","c","u","l","t","y">>, <<"c","e","n","t","e","r">>, <<"c","e","n","t","r","e">>,
    <<"n","a","t","i","o","n","a","l">>, <<"s","t","a","t","e">>, <<"t","e","c","h","n","i","c","a","l">>, <<"t","e","c","h","n","o","l","o","g","y">> }

\* re.sub(r'[^\w\s]', '', name.lower().strip())
cleaned_institution(name) ==
    SelectSeq(strip(lower(name)), LAMBDA c : c \in WordChars \cup Whitespace)

\* the words of the cleaned name that are kept: not in remove_words, longer than 2
kept_words(cleaned) ==
    SelectSeq(split(cleaned), LAMBDA w : w \notin REMOVE_WORDS /\ Len(w) > 2)

\* ' '.join(filtered) if filtered else name
joined_or_cleaned(filtered, cleaned) ==
    IF filtered # << >> THEN join(<<" ">>, filtered) ELSE cleaned

\* _normalize_institution(name) for a string: when no word survives the
\* filter, the lowercased name without punctuation is returned as it is
_normalize_institution(name) ==
    IF name = << >> THEN << >>
    ELSE joined_or_cleaned(kept_words(cleaned_institution(name)), cleaned_institution(name))

_get_institution_keywords(name) == Range(split(_normalize_institution(name)))

\* Scores are exact fractions [num, den] in lowest terms
RECURSIVE gcd(_, _)
gcd(a, b) == IF b = 0 THEN a ELSE gcd(b, a % b)

Score(n, d) == [num |-> n \div gcd(n, d), den |-> d \div gcd(n, d)]

score_le(a, b) == a.num * b.den <= b.num * a.den
score_lt(a, b) == a.num * b.den < b.num * a.den

Score_0 == Score(0, 1)
Score_exact == Score(1, 1)          \* 1.0
Score_contained == Score(9, 10)     \* 0.9
Score_threshold == Score(3, 10)     \* 0.3

score_max(a, b) == IF score_le(a, b) THEN b ELSE a

\* f"{score:.2f}": hundredths, rounded half to even
format_score(s) ==
    LET q == (s.num * 100) \div s.den
        r == (s.num * 100) % s.den
        h == IF 2 * r > s.den \/ (2 * r = s.den /\ q % 2 = 1) THEN q + 1 ELSE q
    IN int_to_str(h \div 100) \o <<".">>
       \o <<DigitChars[((h % 100) \div 10) + 1], DigitChars[(h % 10) + 1]>>

\* The names verify_institution_match collects from one affiliations entry:
\* aff.get raises for an entry that is not a dict, inst.get for an institution
\* that is truthy and not a dict
aff_name_raises(aff) ==
    \/ ~is_dict(aff)
    \/ LET inst == py_or(get(aff, "institution", PyNone), EmptyDict)
       IN ~is_dict(inst)

aff_name(aff) ==
    get(py_or(get(aff, "institution", PyNone), EmptyDict), "display_name", PyStr(<< >>))

\* the same for one entry of last_known_institutions (falsy entries are skipped)
last_name_raises(inst) == truthy(inst) /\ ~is_dict(inst)

last_name(inst) ==
    IF truthy(inst) THEN get(inst, "display_name", PyStr(<< >>)) ELSE PyStr(<< >>)

list_of(x) == py_or(x, PyList(<< >>)).v

\* author_institutions: the set of collected display names (strings)
author_institutions_raises(data) ==
    LET affiliations == list_of(get(data, "affiliations", PyNone))
        last_insts == list_of(get(data, "last_known_institutions", PyNone))
    IN \/ \E k \in 1..Len(affiliations) : aff_name_raises(affiliations[k])
       \/ \E k \in 1..Len(last_insts) : last_name_raises(last_insts[k])

author_institutions(data) ==
    LET affiliations == list_of(get(data, "affiliations", PyNone))
        last_insts == list_of(get(data, "last_known_institutions", PyNone))
    IN {aff_name(affiliations[k]).v :
            k \in {j \in 1..Len(affiliations) : truthy(aff_name(affiliations[j]))}}
       \cup
       {last_name(last_insts[k]).v :
            k \in {j \in 1..Len(last_insts) : truthy(last_name(last_insts[j]))}}

\* the score of one pass of the matching loop with the Jaccard similarity
\* accepted whatever its value
match_score_without_threshold(expected_normalized, expected_keywords, inst_normalized, inst_keywords) ==
    IF expected_normalized = inst_normalized THEN Score_exact
    ELSE IF contains(inst_normalized, expected_normalized)
            \/ contains(expected_normalized, inst_normalized)
         THEN Score_contained
    ELSE IF expected_keywords # {} /\ inst_keywords # {}
            /\ expected_keywords \cup inst_keywords # {}
         THEN Score(Cardinality(expected_keywords \cap inst_keywords),
                    Cardinality(expected_keywords \cup inst_keywords))
    ELSE Score_0

\* the score of one pass of the matching loop, from the normalized names and
\* their keyword sets
match_score(expected_normalized, expected_keywords, inst_normalized, inst_keywords) ==
    IF expected_normalized = inst_normalized THEN Score_exact
    ELSE IF contains(inst_normalized, expected_normalized)
            \/ contains(expected_normalized, inst_normalized)
         THEN Score_contained
    ELSE IF expected_keywords # {} /\ inst_keywords # {}
            /\ expected_keywords \cup inst_keywords # {}
            /\ score_lt(Score_threshold,
                        Score(Cardinality(expected_keywords \cap inst_keywords),
                              Cardinality(expected_keywords \cup inst_keywords)))
         THEN Score(Cardinality(expected_keywords \cap inst_keywords),
                    Cardinality(expected_keywords \cup inst_keywords))
    ELSE Score_0

\* the score one candidate institution contributes in the matching loop
candidate_score(expected_institution, inst_name) ==
    match_score(_normalize_institution(expected_institution),
                _get_institution_keywords(expected_institution),
                _normalize_institution(inst_name),
                _get_institution_keywords(inst_name))

RECURSIVE best_of(_)
best_of(scores) ==
    IF scores = {} THEN Score_0
    ELSE LET s == CHOOSE x \in scores : TRUE
         IN score_max(s, best_of(scores \ {s}))

\* The outcome of verify_institution_match: (is_match, confidence_score), or raised
InstResult(m, s) == [raised |-> FALSE, match |-> m, score |-> s]
InstRaises == [raised |-> TRUE, match |-> FALSE, score |-> Score_0]

\* return best_score >= 0.3, best_score
match_result(best_score) == InstResult(score_le(Score_threshold, best_score), best_score)

\* the matching loop (lines 209-233) walking the candidates in a given order,
\* scores being the scores of the candidates in that order: an exact match
\* returns (True, 1.0) at once, any other score is kept if it is the best
RECURSIVE match_loop(_, _)
match_loop(scores, best_score) ==
    IF scores = << >> THEN match_result(best_score)
    ELSE IF Head(scores) = Score_exact THEN InstResult(TRUE, Score_exact)
    ELSE match_loop(Tail(scores), score_max(best_score, Head(scores)))

\* verify_institution_match reporting a mismatch when there is nothing to
\* compare: (False, 0.0) for an empty expected institution or a missing record
verify_institution_match_nothing_is_mismatch(expected_institution, data) ==
    IF expected_institution = << >> \/ ~truthy(data) THEN InstResult(FALSE, Score_0)
    ELSE IF _get_institution_keywords(expected_institution) = {}
         THEN InstResult(TRUE, Score_0)
    ELSE IF author_institutions_raises(data) THEN InstRaises
    ELSE match_result(best_of({candidate_score(expected_institution, n) :
                                   n \in author_institutions(data)}))

\* verify_institution_match(expected_institution, author_data); an exact match
\* returns (True, 1.0) at once, which is also the maximum of the scores, so the
\* order in which the set is walked does not show in the result
verify_institution_match(expected_institution, data) ==
    IF expected_institution = << >> \/ ~truthy(data) THEN InstResult(TRUE, Score_0)
    ELSE IF _get_institution_keywords(expected_institution) = {}
         THEN InstResult(TRUE, Score_0)
    ELSE IF author_institutions_raises(data) THEN InstRaises
    ELSE match_result(best_of({candidate_score(expected_institution, n) :
                                   n \in author_institutions(data)}))

\* The outcome of verify_author_identity: (is_verified, reason), or raised
Verified(v, r) == [raised |-> FALSE, verified |-> v, reason |-> r]
IdentityRaises == [raised |-> TRUE, verified |-> FALSE, reason |-> << >>]

name_mismatch_reason(expected_first, expected_last, actual_name) ==
    <<"N","a","m","e"," ","m","i","s","m","a","t","c","h"," ","(","e","x","p","e","c","t","e","d",":"," ","'">> \o expected_first \o <<" ">> \o expected_last
    \o <<"'",","," ","g","o","t",":"," ","'">> \o py_str(actual_name) \o <<"'",")">>

\* verify_author_identity letting a strong institution match make up for a
\* name mismatch
identity_decision_strong_match_accepts(name_match, inst, expected_first, expected_last, expected_institution, actual_name) ==
    IF name_match \/ (inst.match /\ score_le(Score(7, 10), inst.score))
    THEN IF inst.match
         THEN Verified(TRUE, <<"N","a","m","e"," ","a","n","d"," ","i","n","s","t","i","t","u","t","i","o","n"," ","v","e","r","i","f","i","e","d"," ","(","s","c","o","r","e",":"," ">>
                             \o format_score(inst.score) \o <<")">>)
         ELSE IF expected_institution = << >>
              THEN Verified(TRUE, <<"N","a","m","e"," ","v","e","r","i","f","i","e","d"," ","(","n","o"," ","i","n","s","t","i","t","u","t","i","o","n"," ","t","o"," ","c","h","e","c","k",")">>)
              ELSE Verified(TRUE,
                   <<"N","a","m","e"," ","v","e","r","i","f","i","e","d",","," ","i","n","s","t","i","t","u","t","i","o","n"," ","n","o","t"," ","f","o","u","n","d"," ","i","n"," ","h","i","s","t","o","r","y"," ","(","m","a","y"," ","b","e"," ","o","u","t","d","a","t","e","d",")">>)
    ELSE Verified(FALSE,
                  name_mismatch_reason(expected_first, expected_last, actual_name))

\* the decision of verify_author_identity once both matchers have returned
identity_decision(name_match, inst, expected_first, expected_last, expected_institution, actual_name) ==
    IF name_match
    THEN IF inst.match
         THEN Verified(TRUE, <<"N","a","m","e"," ","a","n","d"," ","i","n","s","t","i","t","u","t","i","o","n"," ","v","e","r","i","f","i","e","d"," ","(","s","c","o","r","e",":"," ">>
                             \o format_score(inst.score) \o <<")">>)
         ELSE IF expected_institution = << >>
              THEN Verified(TRUE, <<"N","a","m","e"," ","v","e","r","i","f","i","e","d"," ","(","n","o"," ","i","n","s","t","i","t","u","t","i","o","n"," ","t","o"," ","c","h","e","c","k",")">>)
              ELSE Verified(TRUE,
                   <<"N","a","m","e"," ","v","e","r","i","f","i","e","d",","," ","i","n","s","t","i","t","u","t","i","o","n"," ","n","o","t"," ","f","o","u","n","d"," ","i","n"," ","h","i","s","t","o","r","y"," ","(","m","a","y"," ","b","e"," ","o","u","t","d","a","t","e","d",")">>)
    ELSE Verified(FALSE,
                  name_mismatch_reason(expected_first, expected_last, actual_name))

\* what verify_author_identity does with each outcome of verify_author_name:
\* an exception of either matcher propagates
identity_outcomes(names, inst, expected_first, expected_last, expected_institution, actual_name) ==
    {IF name.raised \/ inst.raised THEN IdentityRaises
     ELSE identity_decision(name.value, inst, expected_first, expected_last,
                            expected_institution, actual_name) : name \in names}

\* verify_author_identity(expected_first, expected_last, expected_institution,
\* author_data): the set of outcomes the call can have
verify_author_identity(expected_first, expected_last, expected_institution, data) ==
    IF ~truthy(data) THEN {Verified(FALSE, <<"N","o"," ","a","u","t","h","o","r"," ","d","a","t","a">>)}
    ELSE identity_outcomes(
             verify_author_name(expected_first, expected_last,
                                get(data, "display_name", PyStr(<< >>))),
             verify_institution_match(expected_institution, data),
             expected_first, expected_last, expected_institution,
             get(data, "display_name", PyStr(<< >>)))

----------------------------------------------------------------------------
(* src/src/checkers.py                                                     *)

\* table.get(key, key) for a table of (key, value) pairs
lookup(table, key) ==
    IF \E k \in 1..Len(table) : table[k][1] = key
    THEN table[CHOOSE k \in 1..Len(table) : table[k][1] = key][2]
    ELSE key

\* get_country_name(country_code) for a Python value
get_country_name(country_code) ==
    IF ~truthy(country_code) THEN <<"U","n","k","n","o","w","n">>
    ELSE lookup(COUNTRY_NAMES, country_code.v)

\* the country test without the membership in flagged_countries
is_flagged_code_any_country(country_code, flagged_countries) ==
    truthy(country_code) /\ country_code.t = "str"

\* country_code and country_code in flagged_countries
\* (flagged_countries is a list of strings)
is_flagged_code(country_code, flagged_countries) ==
    /\ truthy(country_code)
    /\ country_code.t = "str"
    /\ country_code.v \in Range(flagged_countries)

\* min(years) and max(years) of a non-empty list of integers
min_year(years) ==
    years[CHOOSE k \in 1..Len(years) : \A m \in 1..Len(years) : years[k].v <= years[m].v].v
max_year(years) ==
    years[CHOOSE k \in 1..Len(years) : \A m \in 1..Len(years) : years[k].v >= years[m].v].v

\* the length above which check_direct_affiliation keeps only the first detail
EVIDENCE_MAX_LEN == 150

\* the title length above which check_indirect_affiliation truncates, and the
\* number of characters it keeps
TITLE_MAX_LEN == 80
TITLE_KEPT == 77

\* What a scan has accumulated: the evidence list, the institution ids already
\* reported (checked_institutions of the indirect scan) and whether it has
\* raised.  For each evidence entry the scan also records the institution dict
\* and the author dict it was made from (sources and authors; the direct scan
\* has no author): the statements about where evidence comes from read them.
Scan(ev, src, aut, chk) ==
    [raised |-> FALSE, evidence |-> ev, sources |-> src, authors |-> aut, checked |-> chk]
\* a scan that starts with the institution ids of the result of the call
\* before: the set of seen ids kept from one call to the next
EmptyScan_with_ids_of_last_call ==
    IF pc \in {"package", "script"} /\ ~out.raised
    THEN Scan(<< >>, << >>, << >>,
              {get(s, "id", PyStr(<< >>)).v : s \in Range(out.sources)})
    ELSE Scan(<< >>, << >>, << >>, {})

\* evidence = [] and checked_institutions = set() at the start of a call
EmptyScan == Scan(<< >>, << >>, << >>, {})
raise(acc) == [acc EXCEPT !.raised = TRUE]
emit(acc, ev, inst, author) ==
    [acc EXCEPT !.evidence = Append(@, ev),
                !.sources = Append(@, inst),
                !.authors = Append(@, author)]

\* the evidence string of one affiliations entry (checkers.py lines 56-80)
affiliation_evidence(aff, institution) ==
    LET country_code == get(institution, "country_code", PyNone)
        inst_name == get(institution, "display_name", PyStr(<<"U","n","k","n","o","w","n"," ","I","n","s","t","i","t","u","t","i","o","n">>))
        inst_type == get(institution, "type", PyStr(<< >>))
        years == py_or(get(aff, "years", PyNone), PyList(<< >>))
        country_name == get_country_name(country_code)
        year_details ==
            IF truthy(years) /\ years.t = "list" /\ Len(years.v) > 0
            THEN IF Len(years.v) = 1
                 THEN << <<"1"," ","y","e","a","r"," ","o","n","l","y"," ","(">> \o py_str(years.v[1]) \o <<")">> >>
                 ELSE << int_to_str(Len(years.v)) \o <<" ","y","e","a","r","s"," ","(">>
                         \o int_to_str(min_year(years.v)) \o <<"-">>
                         \o int_to_str(max_year(years.v)) \o <<")">> >>
            ELSE << >>
        type_details ==
            IF truthy(inst_type) THEN << <<"T","y","p","e",":"," ">> \o py_str(inst_type) >> ELSE << >>
        details == year_details \o type_details
        ev == py_str(inst_name) \o <<" ","[">> \o country_name \o <<"]">>
        detail_str == join(<<" ","|"," ">>, details)
    IN IF details = << >> THEN ev
       ELSE IF Len(ev) + Len(detail_str) < EVIDENCE_MAX_LEN
            THEN ev \o <<" ","|"," ">> \o detail_str
            ELSE ev \o <<" ","|"," ">> \o details[1]

\* one iteration of the loop over affiliations (checkers.py lines 39-82)
direct_affiliation_step(acc, aff, flagged_countries) ==
    IF ~is_dict(aff) THEN acc
    ELSE LET institution == py_or(get(aff, "institution", PyNone), EmptyDict)
         IN IF ~is_dict(institution) THEN acc
            ELSE LET country_code == get(institution, "country_code", PyNone)
                     inst_name == get(institution, "display_name",
                                      PyStr(<<"U","n","k","n","o","w","n"," ","I","n","s","t","i","t","u","t","i","o","n">>))
                 IN IF is_generic_institution_raises(inst_name) THEN raise(acc)
                    ELSE IF is_generic_institution(inst_name) THEN acc
                    ELSE IF is_flagged_code(country_code, flagged_countries)
                         THEN emit(acc, affiliation_evidence(aff, institution), institution, EmptyDict)
                         ELSE acc

\* the loop over affiliations (lines 39-82): the steps in order, stopping at an exception
RECURSIVE direct_affiliations_loop(_, _, _)
direct_affiliations_loop(acc, items, flagged_countries) ==
    IF items = << >> \/ acc.raised THEN acc
    ELSE direct_affiliations_loop(direct_affiliation_step(acc, items[1], flagged_countries), Tail(items), flagged_countries)

\* any(inst_name in e for e in evidence): "x in e" raises TypeError when x is
\* not a string, which happens as soon as evidence has an entry
name_in_evidence_raises(inst_name, evidence) ==
    inst_name.t # "str" /\ evidence # << >>

name_in_evidence(inst_name, evidence) ==
    \E k \in 1..Len(evidence) : contains(evidence[k], inst_name.v)

\* one iteration of the loop over last_known_institutions (lines 86-107)
direct_last_known_step(acc, inst, flagged_countries) ==
    IF ~is_dict(inst) THEN acc
    ELSE LET inst_name == get(inst, "display_name", PyStr(<<"U","n","k","n","o","w","n"," ","I","n","s","t","i","t","u","t","i","o","n">>))
             country_code == get(inst, "country_code", PyNone)
             inst_type == get(inst, "type", PyStr(<< >>))
             head == py_str(inst_name) \o <<" ","[">> \o get_country_name(country_code)
                     \o <<"]"," ","|"," ","C","U","R","R","E","N","T","/","R","E","C","E","N","T">>
             ev == IF truthy(inst_type)
                   THEN head \o <<" ","|"," ","T","y","p","e",":"," ">> \o py_str(inst_type)
                   ELSE head
         IN IF is_generic_institution_raises(inst_name) THEN raise(acc)
            ELSE IF is_generic_institution(inst_name) THEN acc
            ELSE IF is_flagged_code(country_code, flagged_countries)
                 THEN IF name_in_evidence_raises(inst_name, acc.evidence) THEN raise(acc)
                      ELSE IF ~name_in_evidence(inst_name, acc.evidence)
                           THEN emit(acc, ev, inst, EmptyDict)
                           ELSE acc
                 ELSE acc

\* the loop over last_known_institutions (lines 86-107): the steps in order, stopping at an exception
RECURSIVE direct_last_known_loop(_, _, _)
direct_last_known_loop(acc, items, flagged_countries) ==
    IF items = << >> \/ acc.raised THEN acc
    ELSE direct_last_known_loop(direct_last_known_step(acc, items[1], flagged_countries), Tail(items), flagged_countries)

\* check_direct_affiliation without the legacy field
direct_legacy_step_ignored(acc, last_inst, flagged_countries) == acc

\* the legacy last_known_institution field (lines 110-121)
direct_legacy_step(acc, last_inst, flagged_countries) ==
    IF ~(truthy(last_inst) /\ is_dict(last_inst)) THEN acc
    ELSE LET inst_name == get(last_inst, "display_name", PyStr(<<"U","n","k","n","o","w","n"," ","I","n","s","t","i","t","u","t","i","o","n">>))
             country_code == get(last_inst, "country_code", PyNone)
             ev == py_str(inst_name) \o <<" ","[">> \o get_country_name(country_code)
                   \o <<"]"," ","|"," ","C","U","R","R","E","N","T","/","R","E","C","E","N","T">>
         IN IF is_generic_institution_raises(inst_name) THEN raise(acc)
            ELSE IF is_generic_institution(inst_name) THEN acc
            ELSE IF is_flagged_code(country_code, flagged_countries)
                 THEN IF name_in_evidence_raises(inst_name, acc.evidence) THEN raise(acc)
                      ELSE IF ~name_in_evidence(inst_name, acc.evidence)
                           THEN emit(acc, ev, last_inst, EmptyDict)
                           ELSE acc
                 ELSE acc

\* The outcome of a check: (is_flagged, evidence), or raised
CheckResult(acc) ==
    [raised |-> acc.raised,
     flagged |-> ~acc.raised /\ Len(acc.evidence) > 0,
     evidence |-> IF acc.raised THEN << >> ELSE acc.evidence,
     sources |-> IF acc.raised THEN << >> ELSE acc.sources,
     authors |-> IF acc.raised THEN << >> ELSE acc.authors]

\* check_direct_affiliation(author_data, flagged_countries)
check_direct_affiliation(data, flagged_countries) ==
    IF ~truthy(data) THEN CheckResult(EmptyScan)
    ELSE
    LET after_affiliations ==
            direct_affiliations_loop(EmptyScan,
                     list_of(get(data, "affiliations", PyNone)), flagged_countries)
        after_last_known ==
            direct_last_known_loop(after_affiliations,
                     list_of(get(data, "last_known_institutions", PyNone)),
                     flagged_countries)
        after_legacy ==
            IF after_last_known.raised THEN after_last_known
            ELSE direct_legacy_step(after_last_known,
                                    get(data, "last_known_institution", PyNone),
                                    flagged_countries)
    IN CheckResult(after_legacy)

\* the "https://openalex.org/" prefix that is removed from co-authors' ids
OPENALEX_URL_PREFIX == <<"h","t","t","p","s",":","/","/","o","p","e","n","a","l","e","x",".","o","r","g","/">>

\* work_title after the truncation of lines 157-158
truncated_title(work_title) ==
    IF truthy(work_title) /\ Len(work_title.v) > TITLE_MAX_LEN
    THEN PyStr(SubSeq(work_title.v, 1, TITLE_KEPT) \o <<".",".",".">>)
    ELSE work_title

\* the loop over a co-author's institutions without checked_institutions.add
indirect_institution_step_no_add(acc, inst, ctx) ==
    IF ~is_dict(inst) THEN acc
    ELSE LET country_code == get(inst, "country_code", PyNone)
             inst_id == get(inst, "id", PyStr(<< >>))
             inst_name == get(inst, "display_name", PyStr(<<"U","n","k","n","o","w","n"," ","I","n","s","t","i","t","u","t","i","o","n">>))
             coauthor_name == get(ctx.author, "display_name", PyStr(<<"U","n","k","n","o","w","n"," ","C","o","-","a","u","t","h","o","r">>))
             head == <<"C","o","-","a","u","t","h","o","r",":"," ">> \o py_str(coauthor_name) \o <<" ","a","t"," ">>
                     \o py_str(inst_name) \o <<" ","[">> \o get_country_name(country_code)
                     \o <<"]"," ","(">> \o py_str(ctx.pub_year) \o <<")">>
             ev == IF truthy(ctx.work_title)
                   THEN head \o <<" ","|"," ","P","a","p","e","r",":"," ","\"">> \o py_str(ctx.work_title) \o <<"\"">>
                   ELSE head
         IN IF is_generic_institution_raises(inst_name) THEN raise(acc)
            ELSE IF is_generic_institution(inst_name) THEN acc
            ELSE IF /\ is_flagged_code(country_code, ctx.flagged_countries)
                    /\ truthy(inst_id)
                    /\ inst_id.v \notin acc.checked
                 THEN emit(acc, ev, inst, ctx.author)
                 ELSE acc

\* one iteration of the loop over a co-author's institutions (lines 181-205);
\* ctx carries flagged_countries and the author and work being scanned
indirect_institution_step(acc, inst, ctx) ==
    IF ~is_dict(inst) THEN acc
    ELSE LET country_code == get(inst, "country_code", PyNone)
             inst_id == get(inst, "id", PyStr(<< >>))
             inst_name == get(inst, "display_name", PyStr(<<"U","n","k","n","o","w","n"," ","I","n","s","t","i","t","u","t","i","o","n">>))
             coauthor_name == get(ctx.author, "display_name", PyStr(<<"U","n","k","n","o","w","n"," ","C","o","-","a","u","t","h","o","r">>))
             head == <<"C","o","-","a","u","t","h","o","r",":"," ">> \o py_str(coauthor_name) \o <<" ","a","t"," ">>
                     \o py_str(inst_name) \o <<" ","[">> \o get_country_name(country_code)
                     \o <<"]"," ","(">> \o py_str(ctx.pub_year) \o <<")">>
             ev == IF truthy(ctx.work_title)
                   THEN head \o <<" ","|"," ","P","a","p","e","r",":"," ","\"">> \o py_str(ctx.work_title) \o <<"\"">>
                   ELSE head
         IN IF is_generic_institution_raises(inst_name) THEN raise(acc)
            ELSE IF is_generic_institution(inst_name) THEN acc
            ELSE IF /\ is_flagged_code(country_code, ctx.flagged_countries)
                    /\ truthy(inst_id)
                    /\ inst_id.v \notin acc.checked
                 THEN [emit(acc, ev, inst, ctx.author) EXCEPT !.checked = @ \cup {inst_id.v}]
                 ELSE acc

\* the loop over an authorship's institutions (lines 181-205): the steps in order, stopping at an exception
RECURSIVE indirect_institutions_loop(_, _, _)
indirect_institutions_loop(acc, items, ctx) ==
    IF items = << >> \/ acc.raised THEN acc
    ELSE indirect_institutions_loop(indirect_institution_step(acc, items[1], ctx), Tail(items), ctx)

\* the co-author's id without the removal of the URL prefix
coauthor_id_as_given(author_id_raw) == py_str(author_id_raw)

\* str(author_id_raw).replace("https://openalex.org/", "")
coauthor_id(author_id_raw) == replace(py_str(author_id_raw), OPENALEX_URL_PREFIX, << >>)

\* one iteration of the loop over a work's authorships (lines 160-205)
indirect_authorship_step(acc, authorship, ctx) ==
    IF ~is_dict(authorship) THEN acc
    ELSE LET author == py_or(get(authorship, "author", PyNone), EmptyDict)
         IN IF ~is_dict(author) THEN acc
            ELSE LET author_id_raw == get(author, "id", PyNone)
                 IN IF ~truthy(author_id_raw) THEN acc
                    ELSE IF coauthor_id(author_id_raw) = ctx.target_author_id THEN acc
                    ELSE indirect_institutions_loop(acc,
                                  list_of(get(authorship, "institutions", PyNone)),
                                  [ctx EXCEPT !.author = author])

\* the loop over a work's authorships (lines 160-205): the steps in order, stopping at an exception
RECURSIVE indirect_authorships_loop(_, _, _)
indirect_authorships_loop(acc, items, ctx) ==
    IF items = << >> \/ acc.raised THEN acc
    ELSE indirect_authorships_loop(indirect_authorship_step(acc, items[1], ctx), Tail(items), ctx)

\* one iteration of the loop over works (lines 148-205)
indirect_work_step(acc, work, ctx) ==
    IF ~is_dict(work) THEN acc
    ELSE indirect_authorships_loop(acc,
                  list_of(get(work, "authorships", PyNone)),
                  [ctx EXCEPT !.pub_year = get(work, "publication_year", PyStr(<< >>)),
                              !.work_title = truncated_title(get(work, "title", PyStr(<< >>)))])

\* the loop over works (lines 148-205): the steps in order, stopping at an exception
RECURSIVE indirect_works_loop(_, _, _)
indirect_works_loop(acc, items, ctx) ==
    IF items = << >> \/ acc.raised THEN acc
    ELSE indirect_works_loop(indirect_work_step(acc, items[1], ctx), Tail(items), ctx)

\* check_indirect_affiliation(works, target_author_id, flagged_countries):
\* works is a list of Python values, target_author_id a string
check_indirect_affiliation(work_list, target_author_id, flagged_countries) ==
    IF work_list = << >> THEN CheckResult(EmptyScan)
    ELSE CheckResult(
             indirect_works_loop(EmptyScan, work_list,
                      [flagged_countries |-> flagged_countries,
                       target_author_id |-> target_author_id,
                       author |-> EmptyDict,
                       pub_year |-> PyStr(<< >>),
                       work_title |-> PyStr(<< >>)]))

----------------------------------------------------------------------------
(* src/affiliation_checker.py: the monolithic script's own copies          *)

script_COUNTRY_NAMES == <<
    << <<"I","L">>, <<"I","s","r","a","e","l">> >>, << <<"I","R">>, <<"I","r","a","n">> >>, << <<"R","U">>, <<"R","u","s","s","i","a">> >>,
    << <<"C","N">>, <<"C","h","i","n","a">> >>, << <<"K","P">>, <<"N","o","r","t","h"," ","K","o","r","e","a">> >>, << <<"S","Y">>, <<"S","y","r","i","a">> >>,
    << <<"C","U">>, <<"C","u","b","a">> >>, << <<"B","Y">>, <<"B","e","l","a","r","u","s">> >>, << <<"V","E">>, <<"V","e","n","e","z","u","e","l","a">> >>,
    << <<"M","M">>, <<"M","y","a","n","m","a","r">> >>, << <<"A","F">>, <<"A","f","g","h","a","n","i","s","t","a","n">> >>, << <<"I","Q">>, <<"I","r","a","q">> >>,
    << <<"L","Y">>, <<"L","i","b","y","a">> >>, << <<"S","D">>, <<"S","u","d","a","n">> >>, << <<"Y","E">>, <<"Y","e","m","e","n">> >>,
    << <<"U","S">>, <<"U","n","i","t","e","d"," ","S","t","a","t","e","s">> >>, << <<"G","B">>, <<"U","n","i","t","e","d"," ","K","i","n","g","d","o","m">> >>,
    << <<"D","E">>, <<"G","e","r","m","a","n","y">> >>, << <<"F","R">>, <<"F","r","a","n","c","e">> >>, << <<"J","P">>, <<"J","a","p","a","n">> >>,
    << <<"K","R">>, <<"S","o","u","t","h"," ","K","o","r","e","a">> >>, << <<"A","U">>, <<"A","u","s","t","r","a","l","i","a">> >>, << <<"C","A">>, <<"C","a","n","a","d","a">> >>,
    << <<"I","N">>, <<"I","n","d","i","a">> >>, << <<"B","R">>, <<"B","r","a","z","i","l">> >>, << <<"I","D">>, <<"I","n","d","o","n","e","s","i","a">> >>,
    << <<"M","Y">>, <<"M","a","l","a","y","s","i","a">> >>, << <<"S","G">>, <<"S","i","n","g","a","p","o","r","e">> >>, << <<"S","A">>, <<"S","a","u","d","i"," ","A","r","a","b","i","a">> >>,
    << <<"A","E">>, <<"U","A","E">> >>, << <<"Q","A">>, <<"Q","a","t","a","r">> >>, << <<"E","G">>, <<"E","g","y","p","t">> >>,
    << <<"T","R">>, <<"T","u","r","k","e","y">> >>, << <<"P","K">>, <<"P","a","k","i","s","t","a","n">> >> >>

script_GENERIC_INSTITUTION_PATTERNS == <<
    <<"m","i","n","i","s","t","r","y"," ","o","f"," ","e","d","u","c","a","t","i","o","n">>,
    <<"m","i","n","i","s","t","r","y"," ","o","f"," ","s","c","i","e","n","c","e">>,
    <<"m","i","n","i","s","t","r","y"," ","o","f"," ","h","e","a","l","t","h">>,
    <<"m","i","n","i","s","t","r","y"," ","o","f">>,
    <<"d","e","p","a","r","t","m","e","n","t"," ","o","f"," ","e","d","u","c","a","t","i","o","n">>,
    <<"n","a","t","i","o","n","a","l"," ","s","c","i","e","n","c","e"," ","f","o","u","n","d","a","t","i","o","n">>,
    <<"g","o","v","e","r","n","m","e","n","t"," ","o","f">>,
    <<"s","t","a","t","e"," ","c","o","u","n","c","i","l">> >>

script_is_generic_institution_raises(institution_name) ==
    truthy(institution_name) /\ institution_name.t # "str"

script_is_generic_institution(institution_name) ==
    IF ~truthy(institution_name) THEN FALSE
    ELSE LET name_lower == strip(lower(institution_name.v))
         IN \E k \in 1..Len(script_GENERIC_INSTITUTION_PATTERNS) :
                contains(name_lower, script_GENERIC_INSTITUTION_PATTERNS[k])

\* normalize, nested in verify_author_name
script_normalize(name) ==
    SelectSeq(strip(lower(name)),
              LAMBDA c : c \in WordChars \cup Whitespace \cup {"-"})

\* the pieces a hyphenated token adds in the script
script_hyphen_forms(token) ==
    IF "-" \in Range(token)
    THEN {replace(token, <<"-">>, << >>)}
         \cup {p \in Range(split_on(token, "-")) : Len(p) > 1}
    ELSE {}

script_variants_of(n) == {n} \cup script_hyphen_forms(n)

\* get_name_variants, nested in verify_author_name
script_get_name_variants(name) == script_variants_of(script_normalize(name))

\* actual_parts of the script's verify_author_name
script_actual_parts_of(actual_name_normalized) ==
    UNION {{part} \cup script_hyphen_forms(part) :
               part \in Range(split(actual_name_normalized))}

\* the script's verify_author_name from the point where the names are
\* normalized and the variants and parts are built (lines 180-236)
script_name_outcomes(expected_first, expected_first_variants, expected_last_variants, actual_parts) ==
    LET last_name_match ==
            \E exp_last \in expected_last_variants : exp_last \in actual_parts
        loop_match ==
            \E exp_first \in expected_first_variants :
                /\ ~(Len(exp_first) < 2 /\ Cardinality(expected_first_variants) > 1)
                /\ \/ exp_first \in actual_parts
                   \/ \E actual_part \in actual_parts :
                          Len(exp_first) >= 3 /\ startswith(actual_part, exp_first)
        \* the initials loop, in hash order: part[0] raises on the empty part
        hits == {p \in actual_parts :
                    /\ p # << >>
                    /\ \/ Len(p) <= 2 /\ p[1] = expected_first[1]
                       \/ p[1] = expected_first[1] /\ 2 * Len(p) > Len(expected_first)}
        initials ==
            IF ~loop_match /\ Len(expected_first) >= 1
            THEN (IF hits # {} THEN {"match"} ELSE {})
                 \cup (IF << >> \in actual_parts THEN {"raise"} ELSE {})
                 \cup (IF hits = {} /\ << >> \notin actual_parts THEN {"nomatch"} ELSE {})
            ELSE {"skipped"}
        decide(first_name_match) ==
            IF Len(replace(expected_first, <<" ">>, << >>)) <= 2 /\ last_name_match
            THEN TRUE
            ELSE last_name_match /\ first_name_match
    IN {IF o = "raise" THEN Raises
        ELSE Returns(decide(loop_match \/ o = "match")) : o \in initials}

\* verify_author_name of the script: the set of outcomes the call can have
script_verify_author_name(expected_first, expected_last, actual_name) ==
    IF ~truthy(actual_name) THEN {Returns(FALSE)}
    ELSE script_name_outcomes(script_normalize(expected_first),
                              script_get_name_variants(script_normalize(expected_first)),
                              script_get_name_variants(script_normalize(expected_last)),
                              script_actual_parts_of(script_normalize(actual_name.v)))

\* re.sub(r'[^\w\s]', '', name.lower().strip()) of normalize_inst
script_cleaned_inst(name) ==
    SelectSeq(strip(lower(name)), LAMBDA c : c \in WordChars \cup Whitespace)

\* the words normalize_inst keeps
script_kept_words(cleaned) ==
    SelectSeq(split(cleaned), LAMBDA w : w \notin REMOVE_WORDS /\ Len(w) > 2)

\* normalize_inst, nested in verify_institution_match
script_normalize_inst(name) ==
    IF name = << >> THEN << >>
    ELSE IF script_kept_words(script_cleaned_inst(name)) # << >>
         THEN join(<<" ">>, script_kept_words(script_cleaned_inst(name)))
         ELSE script_cleaned_inst(name)

\* get_key_words, nested in verify_institution_match
script_get_key_words(name) == Range(split(script_normalize_inst(name)))

\* the names the script collects from affiliations and last_known_institutions
script_author_institutions_raises(data) ==
    \/ \E k \in 1..Len(list_of(get(data, "affiliations", PyNone))) :
           aff_name_raises(list_of(get(data, "affiliations", PyNone))[k])
    \/ \E k \in 1..Len(list_of(get(data, "last_known_institutions", PyNone))) :
           last_name_raises(list_of(get(data, "last_known_institutions", PyNone))[k])

script_author_institutions(data) ==
    {aff_name(aff).v :
         aff \in {x \in Range(list_of(get(data, "affiliations", PyNone))) :
                      truthy(aff_name(x))}}
    \cup
    {last_name(inst).v :
         inst \in {x \in Range(list_of(get(data, "last_known_institutions", PyNone))) :
                       truthy(last_name(x))}}

\* the score of one pass of the script's matching loop
script_match_score(expected_normalized, expected_keywords, inst_normalized, inst_keywords) ==
    IF expected_normalized = inst_normalized THEN Score_exact
    ELSE IF contains(inst_normalized, expected_normalized)
            \/ contains(expected_normalized, inst_normalized)
         THEN Score_contained
    ELSE IF expected_keywords # {} /\ inst_keywords # {}
            /\ expected_keywords \cup inst_keywords # {}
            /\ score_lt(Score_threshold,
                        Score(Cardinality(expected_keywords \cap inst_keywords),
                              Cardinality(expected_keywords \cup inst_keywords)))
         THEN Score(Cardinality(expected_keywords \cap inst_keywords),
                    Cardinality(expected_keywords \cup inst_keywords))
    ELSE Score_0

script_candidate_score(expected_institution, inst_name) ==
    script_match_score(script_normalize_inst(expected_institution),
                       script_get_key_words(expected_institution),
                       script_normalize_inst(inst_name),
                       script_get_key_words(inst_name))

script_match_result(best_score) ==
    InstResult(score_le(Score_threshold, best_score), best_score)

\* verify_institution_match of the script
script_verify_institution_match(expected_institution, data) ==
    IF expected_institution = << >> \/ ~truthy(data) THEN InstResult(TRUE, Score_0)
    ELSE IF script_get_key_words(expected_institution) = {}
         THEN InstResult(TRUE, Score_0)
    ELSE IF script_author_institutions_raises(data) THEN InstRaises
    ELSE script_match_result(
             best_of({script_candidate_score(expected_institution, n) :
                          n \in script_author_institutions(data)}))

\* the score from which the script calls an institution match "strong"
Score_strong == Score(7, 10)        \* 0.7

\* the decision of the script's verify_author_identity once both matchers
\* have returned: a strong institution match does not make up for a name
\* mismatch
script_identity_decision(name_match, inst, expected_first, expected_last, expected_institution, actual_name) ==
    IF name_match
    THEN IF inst.match
         THEN Verified(TRUE, <<"N","a","m","e"," ","a","n","d"," ","i","n","s","t","i","t","u","t","i","o","n"," ","v","e","r","i","f","i","e","d"," ","(","s","c","o","r","e",":"," ">>
                             \o format_score(inst.score) \o <<")">>)
         ELSE IF expected_institution = << >>
              THEN Verified(TRUE, <<"N","a","m","e"," ","v","e","r","i","f","i","e","d"," ","(","n","o"," ","i","n","s","t","i","t","u","t","i","o","n"," ","t","o"," ","c","h","e","c","k",")">>)
              ELSE Verified(TRUE,
                   <<"N","a","m","e"," ","v","e","r","i","f","i","e","d",","," ","i","n","s","t","i","t","u","t","i","o","n"," ","n","o","t"," ","f","o","u","n","d"," ","i","n"," ","h","i","s","t","o","r","y"," ","(","m","a","y"," ","b","e"," ","o","u","t","d","a","t","e","d",")">>)
    ELSE IF inst.match /\ score_le(Score_strong, inst.score)
         THEN Verified(FALSE, name_mismatch_reason(expected_first, expected_last,
                                                   actual_name))
         ELSE Verified(FALSE, name_mismatch_reason(expected_first, expected_last,
                                                   actual_name))

script_identity_outcomes(names, inst, expected_first, expected_last, expected_institution, actual_name) ==
    {IF name.raised \/ inst.raised THEN IdentityRaises
     ELSE script_identity_decision(name.value, inst, expected_first, expected_last,
                                   expected_institution, actual_name) : name \in names}

\* verify_author_identity of the script: the set of outcomes the call can have
script_verify_author_identity(expected_first, expected_last, expected_institution, data) ==
    IF ~truthy(data) THEN {Verified(FALSE, <<"N","o"," ","a","u","t","h","o","r"," ","d","a","t","a">>)}
    ELSE script_identity_outcomes(
             script_verify_author_name(expected_first, expected_last,
                                       get(data, "display_name", PyStr(<< >>))),
             script_verify_institution_match(expected_institution, data),
             expected_first, expected_last, expected_institution,
             get(data, "display_name", PyStr(<< >>)))

\* COUNTRY_NAMES.get(country_code, country_code)
script_get_country_name(country_code) ==
    IF ~truthy(country_code) THEN <<"U","n","k","n","o","w","n">>
    ELSE lookup(script_COUNTRY_NAMES, country_code.v)

\* one iteration of the script's loop over affiliations (lines 637-661)
script_direct_affiliation_step(acc, aff, flagged_countries) ==
    IF ~is_dict(aff) THEN acc
    ELSE LET institution == py_or(get(aff, "institution", PyNone), EmptyDict)
         IN IF ~is_dict(institution) THEN acc
            ELSE LET country_code == get(institution, "country_code", PyNone)
                     inst_name == get(institution, "display_name",
                                      PyStr(<<"U","n","k","n","o","w","n"," ","I","n","s","t","i","t","u","t","i","o","n">>))
                     years == py_or(get(aff, "years", PyNone), PyList(<< >>))
                     year_str ==
                         IF truthy(years) /\ years.t = "list" /\ Len(years.v) > 0
                         THEN <<" ","(">> \o int_to_str(min_year(years.v)) \o <<"-">>
                              \o int_to_str(max_year(years.v)) \o <<")">>
                         ELSE << >>
                     ev == py_str(inst_name) \o <<" ","[">>
                           \o script_get_country_name(country_code) \o <<"]">> \o year_str
                 IN IF script_is_generic_institution_raises(inst_name) THEN raise(acc)
                    ELSE IF script_is_generic_institution(inst_name) THEN acc
                    ELSE IF is_flagged_code(country_code, flagged_countries)
                         THEN emit(acc, ev, institution, EmptyDict)
                         ELSE acc

\* the script's loop over affiliations (lines 637-661): the steps in order, stopping at an exception
RECURSIVE script_direct_affiliations_loop(_, _, _)
script_direct_affiliations_loop(acc, items, flagged_countries) ==
    IF items = << >> \/ acc.raised THEN acc
    ELSE script_direct_affiliations_loop(script_direct_affiliation_step(acc, items[1], flagged_countries), Tail(items), flagged_countries)

\* the script's handling of one last-known institution (lines 665-680 and
\* 683-694): the entry is left out when the same evidence string is present
script_direct_last_known_step(acc, inst, flagged_countries) ==
    IF ~is_dict(inst) THEN acc
    ELSE LET inst_name == get(inst, "display_name", PyStr(<<"U","n","k","n","o","w","n"," ","I","n","s","t","i","t","u","t","i","o","n">>))
             country_code == get(inst, "country_code", PyNone)
             ev == py_str(inst_name) \o <<" ","[">> \o script_get_country_name(country_code)
                   \o <<"]"," ","(","L","a","s","t"," ","K","n","o","w","n",")">>
         IN IF script_is_generic_institution_raises(inst_name) THEN raise(acc)
            ELSE IF script_is_generic_institution(inst_name) THEN acc
            ELSE IF is_flagged_code(country_code, flagged_countries)
                    /\ ev \notin Range(acc.evidence)
                 THEN emit(acc, ev, inst, EmptyDict)
                 ELSE acc

\* the script's loop over last_known_institutions (lines 665-680): the steps in order, stopping at an exception
RECURSIVE script_direct_last_known_loop(_, _, _)
script_direct_last_known_loop(acc, items, flagged_countries) ==
    IF items = << >> \/ acc.raised THEN acc
    ELSE script_direct_last_known_loop(script_direct_last_known_step(acc, items[1], flagged_countries), Tail(items), flagged_countries)

\* check_direct_affiliation of the script
script_check_direct_affiliation(data, flagged_countries) ==
    IF ~truthy(data) THEN CheckResult(EmptyScan)
    ELSE
    LET after_affiliations ==
            script_direct_affiliations_loop(EmptyScan,
                     list_of(get(data, "affiliations", PyNone)), flagged_countries)
        after_last_known ==
            script_direct_last_known_loop(after_affiliations,
                     list_of(get(data, "last_known_institutions", PyNone)),
                     flagged_countries)
        last_inst == get(data, "last_known_institution", PyNone)
        after_legacy ==
            IF after_last_known.raised \/ ~(truthy(last_inst) /\ is_dict(last_inst))
            THEN after_last_known
            ELSE script_direct_last_known_step(after_last_known, last_inst,
                                               flagged_countries)
    IN CheckResult(after_legacy)

\* one iteration of the script's loop over a co-author's institutions
\* (lines 749-769)
script_indirect_institution_step(acc, inst, ctx) ==
    IF ~is_dict(inst) THEN acc
    ELSE LET country_code == get(inst, "country_code", PyNone)
             inst_id == get(inst, "id", PyStr(<< >>))
             inst_name == get(inst, "display_name", PyStr(<<"U","n","k","n","o","w","n"," ","I","n","s","t","i","t","u","t","i","o","n">>))
             coauthor_name == get(ctx.author, "display_name", PyStr(<<"U","n","k","n","o","w","n"," ","C","o","-","a","u","t","h","o","r">>))
             ev == <<"C","o","-","a","u","t","h","o","r",":"," ">> \o py_str(coauthor_name) \o <<" ","a","t"," ">>
                   \o py_str(inst_name) \o <<" ","[">> \o script_get_country_name(country_code)
                   \o <<"]"," ","(">> \o py_str(ctx.pub_year) \o <<")">>
         IN IF script_is_generic_institution_raises(inst_name) THEN raise(acc)
            ELSE IF script_is_generic_institution(inst_name) THEN acc
            ELSE IF /\ is_flagged_code(country_code, ctx.flagged_countries)
                    /\ truthy(inst_id)
                    /\ inst_id.v \notin acc.checked
                 THEN [emit(acc, ev, inst, ctx.author) EXCEPT !.checked = @ \cup {inst_id.v}]
                 ELSE acc

\* the script's loop over an authorship's institutions (lines 749-769): the steps in order, stopping at an exception
RECURSIVE script_indirect_institutions_loop(_, _, _)
script_indirect_institutions_loop(acc, items, ctx) ==
    IF items = << >> \/ acc.raised THEN acc
    ELSE script_indirect_institutions_loop(script_indirect_institution_step(acc, items[1], ctx), Tail(items), ctx)

\* one iteration of the script's loop over a work's authorships (lines 728-769)
script_indirect_authorship_step(acc, authorship, ctx) ==
    IF ~is_dict(authorship) THEN acc
    ELSE LET author == py_or(get(authorship, "author", PyNone), EmptyDict)
         IN IF ~is_dict(author) THEN acc
            ELSE LET author_id_raw == get(author, "id", PyNone)
                     author_id == replace(py_str(author_id_raw), OPENALEX_URL_PREFIX, << >>)
                 IN IF ~truthy(author_id_raw) THEN acc
                    ELSE IF author_id = ctx.target_author_id THEN acc
                    ELSE script_indirect_institutions_loop(acc,
                                  list_of(get(authorship, "institutions", PyNone)),
                                  [ctx EXCEPT !.author = author])

\* the script's loop over a work's authorships (lines 728-769): the steps in order, stopping at an exception
RECURSIVE script_indirect_authorships_loop(_, _, _)
script_indirect_authorships_loop(acc, items, ctx) ==
    IF items = << >> \/ acc.raised THEN acc
    ELSE script_indirect_authorships_loop(script_indirect_authorship_step(acc, items[1], ctx), Tail(items), ctx)

\* one iteration of the script's loop over works (lines 721-769)
script_indirect_work_step(acc, work, ctx) ==
    IF ~is_dict(work) THEN acc
    ELSE script_indirect_authorships_loop(acc,
                  list_of(get(work, "authorships", PyNone)),
                  [ctx EXCEPT !.pub_year = get(work, "publication_year", PyStr(<< >>))])

\* the script's loop over works (lines 721-769): the steps in order, stopping at an exception
RECURSIVE script_indirect_works_loop(_, _, _)
script_indirect_works_loop(acc, items, ctx) ==
    IF items = << >> \/ acc.raised THEN acc
    ELSE script_indirect_works_loop(script_indirect_work_step(acc, items[1], ctx), Tail(items), ctx)

\* check_indirect_affiliation of the script
script_check_indirect_affiliation(work_list, target_author_id, flagged_countries) ==
    IF work_list = << >> THEN CheckResult(EmptyScan)
    ELSE CheckResult(
             script_indirect_works_loop(EmptyScan, work_list,
                      [flagged_countries |-> flagged_countries,
                       target_author_id |-> target_author_id,
                       author |-> EmptyDict,
                       pub_year |-> PyStr(<< >>),
                       work_title |-> PyStr(<< >>)]))

----------------------------------------------------------------------------
(* Inputs: institutions, author records, works and rows                    *)

\* the most institution entries (affiliations, last_known_institutions and
\* last_known_institution together) an author record of the call specifications has
MaxEntries == 2

\* the most authorship entries a works list of the call specifications has
MaxAuthorships == 2

\* the number of candidates run_background_check processes
NumCandidates == 2

Institution(id, name, code) ==
    PyDict([id |-> PyStr(id), display_name |-> PyStr(name), country_code |-> PyStr(code)])

UnivTehran ==
    PyDict([id |-> PyStr(<<"I","1">>), display_name |-> PyStr(<<"U","n","i","v","e","r","s","i","t","y"," ","o","f"," ","T","e","h","r","a","n">>),
            country_code |-> PyStr(<<"I","R">>), type |-> PyStr(<<"e","d","u","c","a","t","i","o","n">>)])
\* the same institution id under another display name
TehranUniv == Institution(<<"I","1">>, <<"T","e","h","r","a","n"," ","U","n","i","v","e","r","s","i","t","y">>, <<"I","R">>)
\* a generic institution in a flagged country, in mixed case
Ministry == Institution(<<"I","2">>, <<"M","i","n","i","s","t","r","y"," ","o","f"," ","S","c","i","e","n","c","e",","," ","I","r","a","n">>, <<"I","R">>)
Technion == Institution(<<"I","3">>, <<"T","e","c","h","n","i","o","n">>, <<"I","L">>)
MIT == Institution(<<"I","4">>, <<"M","I","T">>, <<"U","S">>)
\* no id; the name is part of another institution's name
Tehran == PyDict([display_name |-> PyStr(<<"T","e","h","r","a","n">>), country_code |-> PyStr(<<"I","R">>)])
\* no country code
SharifLab == PyDict([id |-> PyStr(<<"I","5">>), display_name |-> PyStr(<<"S","h","a","r","i","f"," ","L","a","b">>)])

InstitutionPool == {UnivTehran, Ministry, Technion, MIT, Tehran, SharifLab}

\* an affiliations entry; the years are those of the institution
Affiliation(inst) ==
    IF inst = UnivTehran
    THEN PyDict([institution |-> inst, years |-> PyList(<<PyInt(2021), PyInt(2019)>>)])
    ELSE IF inst = Technion
    THEN PyDict([institution |-> inst, years |-> PyList(<<PyInt(2020)>>)])
    ELSE PyDict([institution |-> inst])

\* sequences over S of length n, and of length at most n
RECURSIVE SeqsOfLen(_, _)
SeqsOfLen(S, n) ==
    IF n = 0 THEN {<< >>}
    ELSE {Append(q, x) : q \in SeqsOfLen(S, n - 1), x \in S}

SeqsUpTo(S, n) == UNION {SeqsOfLen(S, k) : k \in 0..n}

\* an author record with the given display name and institution entries
Record(name, affs, lasts, legacy) ==
    PyDict([display_name |-> name,
            affiliations |-> PyList([k \in 1..Len(affs) |-> Affiliation(affs[k])]),
            last_known_institutions |-> PyList(lasts),
            last_known_institution |-> legacy])

\* the author records with at most n institution entries in all, the
\* institutions taken from pool
Records(name, pool, n) ==
    {Record(name, affs, lasts, legacy) :
        <<affs, lasts, legacy>> \in
            {<<a, l, g>> \in SeqsUpTo(pool, n) \X SeqsUpTo(pool, n) \X (pool \cup {PyNone}) :
                Len(a) + Len(l) + (IF g = PyNone THEN 0 ELSE 1) <= n}}

FlaggedLists == { << >>, << <<"I","R">> >>, << <<"I","L">>, <<"I","R">> >> }

\* the candidate's own author id, bare and as the URL OpenAlex reports
SelfId == <<"A","1">>
SelfUrl == OPENALEX_URL_PREFIX \o SelfId

Author(id, name) == PyDict([id |-> PyStr(id), display_name |-> PyStr(name)])
Authorship(author, insts) == PyDict([author |-> author, institutions |-> PyList(insts)])

SelfBare == Author(SelfId, <<"A","n","a"," ","L","e","e">>)
SelfFull == Author(SelfUrl, <<"A","n","a"," ","L","e","e">>)
CoAuthor == Author(OPENALEX_URL_PREFIX \o <<"A","2">>, <<"B","o","b"," ","R","o","e">>)
\* an author without id
NoIdAuthor == PyDict([display_name |-> PyStr(<<"E","v","e"," ","P","o","e">>)])

AuthorshipPool == {
    Authorship(SelfBare, <<UnivTehran>>),
    Authorship(SelfFull, <<UnivTehran>>),
    Authorship(CoAuthor, <<UnivTehran>>),
    Authorship(CoAuthor, <<Technion, TehranUniv>>),
    Authorship(CoAuthor, <<Ministry>>),
    Authorship(CoAuthor, <<Tehran>>),
    Authorship(CoAuthor, <<MIT, SharifLab>>),
    Authorship(NoIdAuthor, <<UnivTehran>>) }

\* a work with title and year, and one with neither
Work1(authorships) ==
    PyDict([title |-> PyStr(<<"O","n"," ","I","o","n","s">>), publication_year |-> PyInt(2020),
            authorships |-> PyList(authorships)])
Work2(authorships) == PyDict([authorships |-> PyList(authorships)])

\* the works lists: no work, one work with at most n authorship entries, and
\* two works with at most one authorship entry each
WorksLists(n) ==
    {<< >>}
    \cup {<<Work1(q)>> : q \in SeqsUpTo(AuthorshipPool, n)}
    \cup {<<Work1(q1), Work2(q2)>> :
              q1 \in SeqsUpTo(AuthorshipPool, 1), q2 \in SeqsUpTo(AuthorshipPool, 1)}

\* the arguments of the calls of the check functions
DirectArgs ==
    {[fn |-> "direct", data |-> d, flagged_countries |-> f,
      works |-> << >>, target_author_id |-> << >>] :
        d \in Records(PyStr(<<"A","n","a"," ","L","e","e">>), InstitutionPool, MaxEntries) \cup {PyNone}, f \in FlaggedLists}

IndirectArgs ==
    {[fn |-> "indirect", data |-> PyNone, flagged_countries |-> f,
      works |-> w, target_author_id |-> t] :
        w \in WorksLists(MaxAuthorships), t \in {SelfId, SelfUrl}, f \in FlaggedLists}

\* the arguments of the calls of verify_author_identity
ExpectedNames == { << <<"A","n","a">>, <<"L","e","e">> >>, << <<"S","a","r","a","h">>, <<"S","m","i","t","h">> >> }
ExpectedInstitutions == { << >>, <<"U","n","i","v","e","r","s","i","t","y"," ","o","f"," ","T","e","h","r","a","n">>, <<"C","a","l","t","e","c","h">> }
DisplayNames == { PyStr(<<"A","n","a"," ","L","e","e">>), PyStr(<<"B","o","b"," ","L","e","e">>), PyStr(<<"A","l"," ","-"," ","L","e","e">>), PyNone }

\* the institutions of the records verify_author_identity is called with
IdentityInstitutionPool == {UnivTehran, Ministry, MIT}

\* a record with an entry of affiliations that is null
NullEntryRecord(name) ==
    PyDict([display_name |-> name, affiliations |-> PyList(<<PyNone>>)])

IdentityArgs ==
    {[fn |-> "identity", expected_first |-> n[1], expected_last |-> n[2],
      expected_institution |-> e, data |-> d] :
        n \in ExpectedNames, e \in ExpectedInstitutions,
        d \in UNION {Records(dn, IdentityInstitutionPool, MaxEntries) \cup {NullEntryRecord(dn)} : dn \in DisplayNames}
              \cup {PyNone, EmptyDict}}

\* the rows of the input file, the profiles and the works lists the API returns
\* in the pipeline
RowPool ==
    {[first_name |-> <<"A","n","a">>, last_name |-> <<"L","e","e">>, openalex_id |-> id,
      current_institution |-> e] :
        id \in {SelfId, SelfUrl}, e \in { << >>, <<"U","n","i","v","e","r","s","i","t","y"," ","o","f"," ","T","e","h","r","a","n">> }}

ProfilePool ==
    {PyNone, EmptyDict, NullEntryRecord(PyStr(<<"A","n","a"," ","L","e","e">>))}
    \cup {Record(dn, affs, << >>, legacy) :
              dn \in {PyStr(<<"A","n","a"," ","L","e","e">>), PyStr(<<"B","o","b"," ","L","e","e">>)},
              affs \in { << >>, <<UnivTehran>>, <<Ministry>>, <<MIT>> },
              legacy \in {PyNone, Technion}}

\* a co-author listed with six institutions of a flagged country, each with
\* its own id: more evidence entries than Flag_Evidence keeps
SixInstitutions == <<
    Institution(<<"J","1">>, <<"L","a","b"," ","A">>, <<"I","R">>), Institution(<<"J","2">>, <<"L","a","b"," ","B">>, <<"I","R">>),
    Institution(<<"J","3">>, <<"L","a","b"," ","C">>, <<"I","R">>), Institution(<<"J","4">>, <<"L","a","b"," ","D">>, <<"I","L">>),
    Institution(<<"J","5">>, <<"L","a","b"," ","E">>, <<"I","L">>), Institution(<<"J","6">>, <<"L","a","b"," ","F">>, <<"I","L">>) >>

WorksPool == {
    << >>,
    <<Work1(<<Authorship(CoAuthor, SixInstitutions)>>)>>,
    <<Work1(<<Authorship(SelfFull, <<MIT>>), Authorship(CoAuthor, <<UnivTehran>>)>>)>>,
    <<Work1(<<Authorship(SelfFull, <<UnivTehran>>)>>)>>,
    <<Work1(<<Authorship(SelfFull, <<MIT>>), Authorship(CoAuthor, <<Ministry>>)>>)>>,
    <<Work1(<<Authorship(CoAuthor, <<Technion, TehranUniv>>)>>),
      Work2(<<Authorship(CoAuthor, <<UnivTehran>>)>>)>> }


\* the arguments of the calls of verify_author_name: expected names that are
\* short, of several words, hyphenated, with punctuation or empty; display
\* names that are the expected first and last name joined by a space, and
\* others with a different last name, initials, and hyphens standing alone
NameFirsts == { <<"A","n","a">>, <<"L","i">>, <<"A","n","a"," ","M","a","r","i","a">>, <<"J","e","a","n","-","L","u","c">>, <<"S","a","r","a","h">>, <<"J",".">>, << >> }
NameLasts == { <<"L","e","e">>, <<"W","e","i">>, <<"D","e"," ","S","i","l","v","a">>, <<"S","m","i","t","h","-","J","o","n","e","s">>, <<"O","'","N","e","i","l">>, << >> }

full_name(first, last) == first \o <<" ">> \o last

NameActuals ==
    {PyStr(full_name(f, l)) : f \in NameFirsts, l \in NameLasts}
    \cup {PyStr(<<"L","i","w","e","i"," ","Z","h","a","n","g">>), PyStr(<<"J","o","h","n"," ","S","m","i","t","h">>), PyStr(<<"A","n","a","b","e","l"," ","L","e","e">>),
          PyStr(<<"A","."," ","L","e","e">>), PyStr(<<"B","o","b"," ","-"," ","L","e","e">>), PyStr(<<"A","n","a"," ","-","-"," ","L","e","e">>),
          PyStr(<<"-">>), PyStr(<<".",".",".">>), PyStr(<< >>), PyNone}

NameArgs ==
    {[fn |-> "name", expected_first |-> f, expected_last |-> l, actual_name |-> a] :
        f \in NameFirsts, l \in NameLasts, a \in NameActuals}
    \cup {[fn |-> "name", expected_first |-> <<"S","a","r","a","h">>, expected_last |-> <<"S","m","i","t","h">>,
           actual_name |-> PyStr(<<"J","o","h","n"," ","S","m","i","t","h">>)]}

\* the arguments of the calls of verify_institution_match: expected
\* institutions that match exactly, by containment, by keyword overlap or not
\* at all, one made of stop words only and one of punctuation only
MatchExpected == {
    <<"U","n","i","v","e","r","s","i","t","y"," ","o","f"," ","T","e","h","r","a","n">>, <<"T","e","h","r","a","n"," ","M","e","d","i","c","a","l"," ","S","c","i","e","n","c","e","s">>, <<"S","h","a","r","i","f">>,
    <<"U","n","i","v","e","r","s","i","t","y"," ","o","f"," ","T","e","c","h","n","o","l","o","g","y">>, <<".",".",".">>, << >> }

NamedInstitution(name) == PyDict([display_name |-> PyStr(name)])

MatchInstitutions == {
    NamedInstitution(<<"U","n","i","v","e","r","s","i","t","y"," ","o","f"," ","T","e","h","r","a","n">>),
    NamedInstitution(<<"T","e","h","r","a","n"," ","A","z","a","d"," ","M","e","d","i","c","a","l">>),
    NamedInstitution(<<"S","h","a","r","i","f"," ","T","e","h","r","a","n"," ","A","z","a","d"," ","B","r","a","n","c","h">>) }

\* entries of affiliations: well-formed, null, with a null institution
MatchAffiliations ==
    {PyDict([institution |-> inst]) : inst \in MatchInstitutions}
    \cup {PyNone, PyDict([institution |-> PyNone])}

\* entries of last_known_institutions: well-formed or null
MatchLastKnown == {NamedInstitution(<<"U","n","i","v","e","r","s","i","t","y"," ","o","f"," ","T","e","h","r","a","n">>), PyNone}

\* the records with at most n entries in all
MatchRecords(n) ==
    {PyDict([affiliations |-> PyList(a), last_known_institutions |-> PyList(l),
             last_known_institution |-> g]) :
        <<a, l, g>> \in
            {<<x, y, z>> \in SeqsUpTo(MatchAffiliations, n) \X SeqsUpTo(MatchLastKnown, n)
                             \X MatchLastKnown :
                Len(x) + Len(y) + (IF z = PyNone THEN 0 ELSE 1) <= n}}

InstitutionArgs ==
    {[fn |-> "institution", expected_institution |-> e, data |-> d] :
        e \in MatchExpected, d \in MatchRecords(MaxEntries) \cup {PyNone}}

\* Records and works lists with malformed entries: null entries, null
\* institutions and authors, and fields that are null

\* an institution of a flagged country whose display_name is null
NullNameInstitution ==
    PyDict([id |-> PyStr(<<"I","6">>), display_name |-> PyNone, country_code |-> PyStr(<<"I","R">>),
            type |-> PyNone])

ShapeAffiliations == {
    Affiliation(UnivTehran),
    PyNone,
    PyDict([institution |-> PyNone, years |-> PyNone]),
    PyDict([institution |-> NullNameInstitution, years |-> PyNone]),
    PyDict([years |-> PyList(<< >>)]) }

ShapeLastKnown == {UnivTehran, NullNameInstitution, PyNone}

ShapeRecords(n) ==
    {PyDict([affiliations |-> PyList(a), last_known_institutions |-> PyList(l),
             last_known_institution |-> g]) :
        <<a, l, g>> \in
            {<<x, y, z>> \in SeqsUpTo(ShapeAffiliations, n) \X SeqsUpTo(ShapeLastKnown, n)
                             \X ShapeLastKnown :
                Len(x) + Len(y) + (IF z = PyNone THEN 0 ELSE 1) <= n}}
    \cup {PyDict([affiliations |-> PyNone, last_known_institutions |-> PyNone])}

ShapeAuthorships == {
    Authorship(CoAuthor, <<UnivTehran>>),
    Authorship(CoAuthor, <<PyNone, NullNameInstitution>>),
    Authorship(NoIdAuthor, <<UnivTehran>>),
    PyNone,
    PyDict([author |-> PyNone, institutions |-> PyList(<<UnivTehran>>)]),
    PyDict([author |-> PyDict([id |-> PyNone, display_name |-> PyNone]),
            institutions |-> PyList(<<UnivTehran>>)]),
    PyDict([author |-> PyDict([id |-> PyStr(OPENALEX_URL_PREFIX \o <<"A","3">>),
                               display_name |-> PyNone]),
            institutions |-> PyList(<<UnivTehran>>)]),
    PyDict([author |-> CoAuthor, institutions |-> PyNone]) }

\* a work whose title and publication_year are null
NullFieldsWork(authorships) ==
    PyDict([title |-> PyNone, publication_year |-> PyNone,
            authorships |-> PyList(authorships)])

ShapeWorksLists(n) ==
    {<<PyNone>>, <<PyDict([authorships |-> PyNone])>>}
    \cup {<<Work1(q)>> : q \in SeqsUpTo(ShapeAuthorships, n)}
    \cup {<<NullFieldsWork(q)>> : q \in SeqsUpTo(ShapeAuthorships, n)}

ShapeArgs ==
    {[fn |-> "direct", data |-> d, flagged_countries |-> << <<"I","R">> >>,
      works |-> << >>, target_author_id |-> << >>] : d \in ShapeRecords(MaxEntries)}
    \cup
    {[fn |-> "indirect", data |-> PyNone, flagged_countries |-> << <<"I","R">> >>,
      works |-> w, target_author_id |-> SelfId] : w \in ShapeWorksLists(MaxAuthorships)}

\* Records and works whose texts carry the characters of the evidence
\* separator: institution names, a co-author name and a work title with ";"

TextInstitutions == {
    UnivTehran,
    Institution(<<"I","7">>, <<"P","h","y","s","i","c","s",";"," ","T","e","h","r","a","n">>, <<"I","R">>),
    Institution(<<"I","8">>, <<"S","c","i",";","T","e","c","h">>, <<"I","R">>) }

SemicolonAuthor == Author(OPENALEX_URL_PREFIX \o <<"A","4">>, <<"R","o","e",";"," ","B","o","b">>)

TextAuthorships ==
    {Authorship(a, <<inst>>) : a \in {CoAuthor, SemicolonAuthor}, inst \in TextInstitutions}

\* a work whose title carries the separator
SemicolonWork(authorships) ==
    PyDict([title |-> PyStr(<<"I","o","n","s",";"," ","a"," ","s","t","u","d","y">>), publication_year |-> PyInt(2021),
            authorships |-> PyList(authorships)])

TextWorksLists(n) ==
    {<<Work1(q)>> : q \in SeqsUpTo(TextAuthorships, n)}
    \cup {<<SemicolonWork(q)>> : q \in SeqsUpTo(TextAuthorships, 1)}

TextArgs ==
    {[fn |-> "direct", data |-> d, flagged_countries |-> << <<"I","R">> >>,
      works |-> << >>, target_author_id |-> << >>] :
        d \in Records(PyStr(<<"A","n","a"," ","L","e","e">>), TextInstitutions, MaxEntries)}
    \cup
    {[fn |-> "indirect", data |-> PyNone, flagged_countries |-> << <<"I","R">> >>,
      works |-> w, target_author_id |-> SelfId] : w \in TextWorksLists(MaxAuthorships)}

\* Institution names for is_generic_institution: what stands before the core
\* of the name, the core, and what stands after it
GenericBefore == { << >>, <<" "," ">>, <<"T","h","e"," ">> }

GenericCores == {
    <<"M","i","n","i","s","t","r","y"," ","o","f"," ","E","d","u","c","a","t","i","o","n">>, <<"M","I","N","I","S","T","R","Y"," ","O","F"," ","S","C","I","E","N","C","E">>, <<"m","i","n","i","s","t","r","y"," ","o","f"," ","h","e","a","l","t","h">>,
    <<"M","i","n","i","s","t","r","y"," ","o","f"," ","R","o","a","d","s">>, <<"D","e","p","a","r","t","m","e","n","t"," ","o","f"," ","E","d","u","c","a","t","i","o","n">>,
    <<"N","a","t","i","o","n","a","l"," ","S","c","i","e","n","c","e"," ","F","o","u","n","d","a","t","i","o","n">>, <<"G","o","v","e","r","n","m","e","n","t"," ","o","f">>, <<"S","t","a","t","e"," ","C","o","u","n","c","i","l">>,
    <<"U","n","i","v","e","r","s","i","t","y"," ","o","f"," ","T","e","h","r","a","n">>, <<"M","i","n","i","s","t","r","y">>, <<"M","i","n","i","s","t","r","y","o","f"," ","H","e","a","l","t","h">>,
    <<"S","t","a","t","e"," "," ","C","o","u","n","c","i","l">>, <<"D","e","p","a","r","t","m","e","n","t"," ","o","f"," ","P","h","y","s","i","c","s">>, <<"G","o","v","e","r","n","m","e","n","t","o","f">> }

GenericAfter == { << >>, <<" ">>, <<" ","o","f"," ","C","h","i","n","a">> }

GenericNames ==
    {PyStr(b \o c \o a) : b \in GenericBefore, c \in GenericCores, a \in GenericAfter}
    \cup {PyStr(<< >>), PyNone}

GenericArgs == {[fn |-> "generic", name |-> n] : n \in GenericNames}
----------------------------------------------------------------------------
(* src/affiliation_checker.py: process_candidate and run_background_check  *)

\* DEFAULT_CONFIG["flagged_countries"]
DEFAULT_FLAGGED_COUNTRIES == << <<"I","L">>, <<"I","R">> >>

\* the number of indirect evidence entries kept in Flag_Evidence
INDIRECT_EVIDENCE_KEPT == 5

\* the result columns as run_background_check initialises them
InitialRow == [Flag |-> "No", Affiliation_Type |-> "None", Flag_Evidence |-> << >>]

NoCounts == [flagged_count |-> 0, direct_count |-> 0, indirect_count |-> 0]

\* the state of the call harness while the pipeline runs
NoArgs == [fn |-> "none"]

\* the state of the pipeline between two candidates
Idle ==
    /\ row = NoValue
    /\ author_data = PyNone
    /\ works = << >>
    /\ verdict = NoValue
    /\ calls = << >>
    /\ ret = NoValue
    /\ out = NoValue

\* run_background_check, lines 1006-1015: the result columns and the counters
Init ==
    /\ pc = "fetch_profile"
    /\ i = 1
    /\ df = [k \in 1..NumCandidates |-> InitialRow]
    /\ counts = NoCounts
    /\ args = NoArgs
    /\ Idle

\* process_candidate, lines 802-826: the row is read and the profile fetched.
\* get_author_profile returns the JSON document of the author or None.
FetchProfile ==
    /\ pc = "fetch_profile"
    /\ \E r \in RowPool, profile \in ProfilePool :
        /\ row' = [first_name |-> strip(r.first_name),
                   last_name |-> strip(r.last_name),
                   openalex_id |-> strip(r.openalex_id),
                   current_institution |-> strip(r.current_institution)]
        /\ author_data' = profile
    /\ calls' = <<"get_author_profile">>
    /\ works' = << >>
    /\ verdict' = NoValue
    /\ ret' = NoValue
    /\ out' = NoValue
    /\ pc' = "verify"
    /\ UNCHANGED <<i, df, counts, args>>

\* process_candidate without the return after a rejected identity: the row is
\* written and the affiliation checks follow
VerifyIdentity_without_return ==
    /\ pc = "verify"
    /\ IF truthy(author_data)
       THEN \E o \in script_verify_author_identity(row.first_name, row.last_name,
                                                   row.current_institution, author_data) :
                /\ calls' = Append(calls, "verify_author_identity")
                /\ verdict' = o
                /\ IF o.raised
                   THEN /\ pc' = "raised"
                        /\ UNCHANGED <<df, ret>>
                   ELSE IF ~o.verified
                   THEN /\ df' = [df EXCEPT ![i] =
                                    [Flag |-> "No", Affiliation_Type |-> "None",
                                     Flag_Evidence |->
                                        <<"I","D"," ","M","i","s","m","a","t","c","h",":"," ","O","p","e","n","A","l","e","x"," ","s","h","o","w","s"," ","'">>
                                        \o py_str(get(author_data, "display_name", PyStr(<< >>)))
                                        \o <<"'">>]]
                        /\ pc' = "direct"
                        /\ UNCHANGED ret
                   ELSE /\ pc' = "direct"
                        /\ UNCHANGED <<df, ret>>
       ELSE /\ pc' = "direct"
            /\ UNCHANGED <<calls, verdict, df, ret>>
    /\ UNCHANGED <<i, row, author_data, works, counts, args, out>>

\* process_candidate, lines 828-844: the identity is verified when a profile
\* was returned; a rejected identity writes the row and returns False
VerifyIdentity ==
    /\ pc = "verify"
    /\ IF truthy(author_data)
       THEN \E o \in script_verify_author_identity(row.first_name, row.last_name,
                                                   row.current_institution, author_data) :
                /\ calls' = Append(calls, "verify_author_identity")
                /\ verdict' = o
                /\ IF o.raised
                   THEN /\ pc' = "raised"
                        /\ UNCHANGED <<df, ret>>
                   ELSE IF ~o.verified
                   THEN /\ df' = [df EXCEPT ![i] =
                                    [Flag |-> "No", Affiliation_Type |-> "None",
                                     Flag_Evidence |->
                                        <<"I","D"," ","M","i","s","m","a","t","c","h",":"," ","O","p","e","n","A","l","e","x"," ","s","h","o","w","s"," ","'">>
                                        \o py_str(get(author_data, "display_name", PyStr(<< >>)))
                                        \o <<"'">>]]
                        /\ ret' = FALSE
                        /\ pc' = "returned"
                   ELSE /\ pc' = "direct"
                        /\ UNCHANGED <<df, ret>>
       ELSE /\ pc' = "direct"
            /\ UNCHANGED <<calls, verdict, df, ret>>
    /\ UNCHANGED <<i, row, author_data, works, counts, args, out>>

\* process_candidate without the return after a direct flag: the row is
\* written and the works are checked as well
DirectCheck_without_return ==
    /\ pc = "direct"
    /\ IF truthy(author_data)
       THEN \E r \in {script_check_direct_affiliation(author_data, DEFAULT_FLAGGED_COUNTRIES)} :
               /\ calls' = Append(calls, "check_direct_affiliation")
               /\ out' = r
               /\ IF r.raised
                  THEN /\ pc' = "raised"
                       /\ UNCHANGED <<df, ret>>
                  ELSE IF r.flagged
                  THEN /\ df' = [df EXCEPT ![i] =
                                   [Flag |-> "Yes", Affiliation_Type |-> "Direct",
                                    Flag_Evidence |-> join(<<";"," ">>, r.evidence)]]
                       /\ pc' = "fetch_works"
                       /\ UNCHANGED ret
                  ELSE /\ pc' = "fetch_works"
                       /\ UNCHANGED <<df, ret>>
       ELSE /\ pc' = "fetch_works"
            /\ UNCHANGED <<calls, out, df, ret>>
    /\ UNCHANGED <<i, row, author_data, works, verdict, counts, args>>

\* process_candidate, lines 851-869: the direct check, which returns True at
\* once when it flags
DirectCheck ==
    /\ pc = "direct"
    /\ IF truthy(author_data)
       THEN \E r \in {script_check_direct_affiliation(author_data, DEFAULT_FLAGGED_COUNTRIES)} :
               /\ calls' = Append(calls, "check_direct_affiliation")
               /\ out' = r
               /\ IF r.raised
                  THEN /\ pc' = "raised"
                       /\ UNCHANGED <<df, ret>>
                  ELSE IF r.flagged
                  THEN /\ df' = [df EXCEPT ![i] =
                                   [Flag |-> "Yes", Affiliation_Type |-> "Direct",
                                    Flag_Evidence |-> join(<<";"," ">>, r.evidence)]]
                       /\ ret' = TRUE
                       /\ pc' = "returned"
                  ELSE /\ pc' = "fetch_works"
                       /\ UNCHANGED <<df, ret>>
       ELSE /\ pc' = "fetch_works"
            /\ UNCHANGED <<calls, out, df, ret>>
    /\ UNCHANGED <<i, row, author_data, works, verdict, counts, args>>

\* process_candidate, lines 876-877: get_author_works returns the list of works
FetchWorks ==
    /\ pc = "fetch_works"
    /\ \E w \in WorksPool : works' = w
    /\ calls' = Append(calls, "get_author_works")
    /\ pc' = "indirect"
    /\ UNCHANGED <<i, row, author_data, verdict, df, ret, counts, args, out>>

\* every entry of a list, whatever n: evidence without the slice
first_n_untruncated(q, n) == q

\* the first n entries of a list: evidence[:n]
first_n(q, n) == SubSeq(q, 1, IF Len(q) < n THEN Len(q) ELSE n)

\* process_candidate, lines 879-905: the indirect check on the works, then the
\* row is written and the flag returned
IndirectCheck ==
    /\ pc = "indirect"
    /\ IF works # << >>
       THEN \E r \in {script_check_indirect_affiliation(works, row.openalex_id,
                                                          DEFAULT_FLAGGED_COUNTRIES)} :
               /\ calls' = Append(calls, "check_indirect_affiliation")
               /\ out' = r
               /\ IF r.raised
                  THEN /\ pc' = "raised"
                       /\ UNCHANGED <<df, ret>>
                  ELSE /\ df' = [df EXCEPT ![i] =
                                   IF r.flagged
                                   THEN [Flag |-> "Yes",
                                         Affiliation_Type |-> "Indirect (Co-author)",
                                         Flag_Evidence |->
                                            join(<<";"," ">>, first_n(r.evidence,
                                                                 INDIRECT_EVIDENCE_KEPT))]
                                   ELSE InitialRow]
                       /\ ret' = r.flagged
                       /\ pc' = "returned"
       ELSE /\ df' = [df EXCEPT ![i] = InitialRow]
            /\ ret' = FALSE
            /\ pc' = "returned"
            /\ UNCHANGED <<calls, out>>
    /\ UNCHANGED <<i, row, author_data, works, verdict, counts, args>>

\* the loop of run_background_check moves to the next candidate, or to saving
\* after the last one
next_candidate ==
    /\ i' = i + 1
    /\ pc' = IF i = NumCandidates THEN "save" ELSE "fetch_profile"

\* run_background_check, lines 1022-1039: process_candidate has returned
CandidateReturned ==
    /\ pc = "returned"
    /\ counts' =
         IF ret
         THEN [flagged_count |-> counts.flagged_count + 1,
               direct_count |-> counts.direct_count
                                + (IF df[i].Affiliation_Type = "Direct" THEN 1 ELSE 0),
               indirect_count |-> counts.indirect_count
                                  + (IF df[i].Affiliation_Type = "Direct" THEN 0 ELSE 1)]
         ELSE counts
    /\ next_candidate
    /\ UNCHANGED <<row, author_data, works, verdict, calls, df, ret, args, out>>

\* run_background_check with an exception handler that ends the loop: the
\* candidates after the failed one are not processed
CandidateRaised_ending_the_loop ==
    /\ pc = "raised"
    /\ pc' = "save"
    /\ UNCHANGED <<i, row, author_data, works, verdict, calls, df, ret, counts, args, out>>

\* run_background_check, lines 1045-1047: process_candidate has raised; the
\* exception is printed and the loop continues
CandidateRaised ==
    /\ pc = "raised"
    /\ next_candidate
    /\ UNCHANGED <<row, author_data, works, verdict, calls, df, ret, counts, args, out>>

\* run_background_check, lines 1041-1044: a KeyboardInterrupt raised inside the
\* try block, while process_candidate runs or its result is counted, leaves the
\* loop; the candidate at hand and those after it are not processed further
Interrupt ==
    /\ pc \in {"fetch_profile", "verify", "direct", "fetch_works", "indirect", "returned"}
    /\ pc' = "save"
    /\ UNCHANGED <<i, row, author_data, works, verdict, calls, df, ret, counts, args, out>>

\* run_background_check, lines 1049-1075: the results are saved
SaveResults ==
    /\ pc = "save"
    /\ pc' = "done"
    /\ UNCHANGED <<i, row, author_data, works, verdict, calls, df, ret, counts, args, out>>

Next ==
    \/ FetchProfile
    \/ VerifyIdentity
    \/ DirectCheck
    \/ FetchWorks
    \/ IndirectCheck
    \/ CandidateReturned
    \/ CandidateRaised
    \/ Interrupt
    \/ SaveResults

Spec == Init /\ [][Next]_vars

----------------------------------------------------------------------------
(* The functions called on their own                                       *)

\* the state of the pipeline while a function is called on its own
NoPipeline ==
    /\ i = 0
    /\ df = << >>
    /\ counts = NoCounts
    /\ Idle

InitCheckers ==
    /\ pc = "call"
    /\ args \in DirectArgs \cup IndirectArgs
    /\ NoPipeline

Returned(which, value) ==
    /\ pc' = which
    /\ out' = value
    /\ UNCHANGED <<i, row, author_data, works, verdict, calls, df, ret, counts, args>>

CallCheckDirect ==
    /\ pc = "call" /\ args.fn = "direct"
    /\ Returned("package", check_direct_affiliation(args.data, args.flagged_countries))

CallScriptCheckDirect ==
    /\ pc = "call" /\ args.fn = "direct"
    /\ Returned("script", script_check_direct_affiliation(args.data, args.flagged_countries))

CallCheckIndirect ==
    /\ pc = "call" /\ args.fn = "indirect"
    /\ Returned("package", check_indirect_affiliation(args.works, args.target_author_id,
                                                      args.flagged_countries))

CallScriptCheckIndirect ==
    /\ pc = "call" /\ args.fn = "indirect"
    /\ Returned("script", script_check_indirect_affiliation(args.works, args.target_author_id,
                                                            args.flagged_countries))

NextCheckers ==
    \/ CallCheckDirect
    \/ CallScriptCheckDirect
    \/ CallCheckIndirect
    \/ CallScriptCheckIndirect

SpecCheckers == InitCheckers /\ [][NextCheckers]_vars

InitIdentity ==
    /\ pc = "call"
    /\ args \in IdentityArgs
    /\ NoPipeline

CallVerifyIdentity ==
    /\ pc = "call" /\ args.fn = "identity"
    /\ \E o \in verify_author_identity(args.expected_first, args.expected_last,
                                       args.expected_institution, args.data) :
           Returned("package", o)

CallScriptVerifyIdentity ==
    /\ pc = "call" /\ args.fn = "identity"
    /\ \E o \in script_verify_author_identity(args.expected_first, args.expected_last,
                                              args.expected_institution, args.data) :
           Returned("script", o)

NextIdentity ==
    \/ CallVerifyIdentity
    \/ CallScriptVerifyIdentity

SpecIdentity == InitIdentity /\ [][NextIdentity]_vars


InitNames ==
    /\ pc = "call"
    /\ args \in NameArgs
    /\ NoPipeline

CallVerifyName ==
    /\ pc = "call" /\ args.fn = "name"
    /\ \E o \in verify_author_name(args.expected_first, args.expected_last,
                                   args.actual_name) :
           Returned("package", o)

CallScriptVerifyName ==
    /\ pc = "call" /\ args.fn = "name"
    /\ \E o \in script_verify_author_name(args.expected_first, args.expected_last,
                                          args.actual_name) :
           Returned("script", o)

NextNames ==
    \/ CallVerifyName
    \/ CallScriptVerifyName

SpecNames == InitNames /\ [][NextNames]_vars

InitInstitution ==
    /\ pc = "call"
    /\ args \in InstitutionArgs
    /\ NoPipeline

CallVerifyInstitution ==
    /\ pc = "call" /\ args.fn = "institution"
    /\ Returned("package", verify_institution_match(args.expected_institution, args.data))

CallScriptVerifyInstitution ==
    /\ pc = "call" /\ args.fn = "institution"
    /\ Returned("script",
                script_verify_institution_match(args.expected_institution, args.data))

NextInstitution ==
    \/ CallVerifyInstitution
    \/ CallScriptVerifyInstitution

SpecInstitution == InitInstitution /\ [][NextInstitution]_vars

\* the checks called on records and works lists with malformed entries
InitShapes ==
    /\ pc = "call"
    /\ args \in ShapeArgs
    /\ NoPipeline

SpecShapes == InitShapes /\ [][NextCheckers]_vars

\* the checks called on records and works whose texts carry ";"
InitTexts ==
    /\ pc = "call"
    /\ args \in TextArgs
    /\ NoPipeline

SpecTexts == InitTexts /\ [][NextCheckers]_vars

\* is_generic_institution called on its own
InitGeneric ==
    /\ pc = "call"
    /\ args \in GenericArgs
    /\ NoPipeline

CallIsGeneric ==
    /\ pc = "call" /\ args.fn = "generic"
    /\ Returned("package", IF is_generic_institution_raises(args.name) THEN Raises
                           ELSE Returns(is_generic_institution(args.name)))

CallScriptIsGeneric ==
    /\ pc = "call" /\ args.fn = "generic"
    /\ Returned("script", IF script_is_generic_institution_raises(args.name) THEN Raises
                          ELSE Returns(script_is_generic_institution(args.name)))

NextGeneric ==
    \/ CallIsGeneric
    \/ CallScriptIsGeneric

SpecGeneric == InitGeneric /\ [][NextGeneric]_vars

\* a check function called a second time with the arguments of the first
\* call: ret keeps what the first call returned, out is what the second returns
CallCheckAgain ==
    /\ pc = "package"
    /\ ret' = out
    /\ out' = IF args.fn = "direct"
              THEN check_direct_affiliation(args.data, args.flagged_countries)
              ELSE check_indirect_affiliation(args.works, args.target_author_id,
                                              args.flagged_countries)
    /\ pc' = "package_again"
    /\ UNCHANGED <<i, row, author_data, works, verdict, calls, df, counts, args>>

CallScriptCheckAgain ==
    /\ pc = "script"
    /\ ret' = out
    /\ out' = IF args.fn = "direct"
              THEN script_check_direct_affiliation(args.data, args.flagged_countries)
              ELSE script_check_indirect_affiliation(args.works, args.target_author_id,
                                                     args.flagged_countries)
    /\ pc' = "script_again"
    /\ UNCHANGED <<i, row, author_data, works, verdict, calls, df, counts, args>>

NextTwice ==
    \/ NextCheckers
    \/ CallCheckAgain
    \/ CallScriptCheckAgain

SpecTwice == InitCheckers /\ [][NextTwice]_vars
----------------------------------------------------------------------------
(* Statements about the program                                            *)

\* a call made on its own has ended: out holds its outcome
Called == pc \in {"package", "script"}

\* an author id or target id without the OpenAlex URL prefix
bare_id(id) == replace(id, OPENALEX_URL_PREFIX, << >>)

\* the display name of the institution contains a generic-institution
\* pattern, compared case-insensitively
has_generic_name(inst) ==
    /\ "display_name" \in DOMAIN inst.v
    /\ inst.v.display_name.t = "str"
    /\ \E p \in Range(GENERIC_INSTITUTION_PATTERNS) :
           contains(lower(inst.v.display_name.v), p)

\* the institution has a country code and it is one of the flagged countries
has_flagged_country(inst, flagged_countries) ==
    /\ "country_code" \in DOMAIN inst.v
    /\ inst.v.country_code.t = "str"
    /\ inst.v.country_code.v \in Range(flagged_countries)

\* a non-generic institution of a flagged country
evidential(inst, flagged_countries) ==
    is_dict(inst) /\ ~has_generic_name(inst) /\ has_flagged_country(inst, flagged_countries)

\* the institutions of an author record: those of the affiliations entries,
\* the last_known_institutions and the legacy last_known_institution
affiliation_institutions(data) ==
    {get(aff, "institution", PyNone) :
         aff \in {x \in Range(list_of(get(data, "affiliations", PyNone))) :
                      is_dict(x) /\ "institution" \in DOMAIN x.v}}

record_institutions(data) ==
    {x \in affiliation_institutions(data)
           \cup Range(list_of(get(data, "last_known_institutions", PyNone)))
           \cup {get(data, "last_known_institution", PyNone)} : is_dict(x)}

\* the concatenation of a sequence of sequences
RECURSIVE flatten(_)
flatten(qq) == IF qq = << >> THEN << >> ELSE Head(qq) \o flatten(Tail(qq))

\* the (author, institution) occurrences of a works list in scan order: works
\* in input order, authorships in order within a work, institutions in order
\* within an authorship
authorship_occurrences(authorship) ==
    [k \in 1..Len(list_of(get(authorship, "institutions", PyNone))) |->
        [author |-> py_or(get(authorship, "author", PyNone), EmptyDict),
         inst |-> list_of(get(authorship, "institutions", PyNone))[k]]]

work_occurrences(work) ==
    flatten([k \in 1..Len(list_of(get(work, "authorships", PyNone))) |->
                authorship_occurrences(list_of(get(work, "authorships", PyNone))[k])])

occurrences(work_list) ==
    flatten([k \in 1..Len(work_list) |-> work_occurrences(work_list[k])])

\* the occurrence is of another author than the target: the ids differ
differs_from_target(occ, target_author_id) ==
    bare_id(py_str(get(occ.author, "id", PyNone))) # bare_id(target_author_id)

\* the occurrence is one the scan accepts: the author has an id which, the URL
\* prefix removed, is not target_author_id as it was passed; the institution
\* is non-generic, of a flagged country, and has an id
accepted(occ, target_author_id, flagged_countries) ==
    /\ truthy(get(occ.author, "id", PyNone))
    /\ replace(py_str(get(occ.author, "id", PyNone)), OPENALEX_URL_PREFIX, << >>)
         # target_author_id
    /\ evidential(occ.inst, flagged_countries)
    /\ truthy(get(occ.inst, "id", PyStr(<< >>)))

\* the occurrences of q that are the first with their institution id
first_per_institution(q) ==
    LET firsts == {k \in 1..Len(q) :
                      \A j \in 1..(k - 1) : get(q[j].inst, "id", PyNone)
                                            # get(q[k].inst, "id", PyNone)}
        kept == SelectSeq([k \in 1..Len(q) |-> k], LAMBDA k : k \in firsts)
    IN [n \in 1..Len(kept) |-> q[kept[n]]]

\* the (author, institution) pairs the evidence of an outcome was made from
evidence_occurrences(result) ==
    [k \in 1..Len(result.sources) |->
        [author |-> result.authors[k], inst |-> result.sources[k]]]

\* the outcomes of the name matcher for the arguments of the call, of the copy
\* that was called
name_verdicts ==
    IF pc = "package"
    THEN verify_author_name(args.expected_first, args.expected_last,
                            get(args.data, "display_name", PyStr(<< >>)))
    ELSE script_verify_author_name(args.expected_first, args.expected_last,
                                   get(args.data, "display_name", PyStr(<< >>)))

\* C1: a call of verify_author_identity that returns, returns verified = true
\* exactly when the record is present and verify_author_name accepts its
\* display_name, whatever the institution matcher returns; an absent record
\* gives (False, "No author data").
C1_VerifiedIffNameAccepted ==
    (Called /\ args.fn = "identity" /\ ~out.raised) =>
        /\ out.verified <=> (truthy(args.data) /\ Returns(TRUE) \in name_verdicts)
        /\ ~truthy(args.data) => out = Verified(FALSE, <<"N","o"," ","a","u","t","h","o","r"," ","d","a","t","a">>)

\* a name mismatch rejected although the institution matches exactly (score 1.0)
C1_RejectedDespiteExactInstitution ==
    /\ pc = "package" /\ args.fn = "identity"
    /\ truthy(args.data)
    /\ args.expected_institution # << >>
    /\ verify_institution_match(args.expected_institution, args.data)
         = InstResult(TRUE, Score_exact)
    /\ out = Verified(FALSE, <<"N","a","m","e"," ","m","i","s","m","a","t","c","h"," ","(","e","x","p","e","c","t","e","d",":"," ","'","A","n","a"," ","L","e","e","'",","," ","g","o","t",":"," ","'","B","o","b"," ","L","e","e","'",")">>)

\* the direct check on the record of the current candidate
direct_of_candidate ==
    script_check_direct_affiliation(author_data, DEFAULT_FLAGGED_COUNTRIES)

\* C2: when process_candidate ends for a person whose record yields direct
\* evidence, the row is never "Indirect (Co-author)"; when the direct check was
\* called and flagged, the row is Flag = "Yes", Affiliation_Type = "Direct" and
\* True is returned.
C2_DirectTakesPrecedence ==
    (pc \in {"returned", "raised"} /\ truthy(author_data) /\ direct_of_candidate.flagged) =>
        /\ df[i].Affiliation_Type # "Indirect (Co-author)"
        /\ "check_direct_affiliation" \in Range(calls) =>
               /\ pc = "returned"
               /\ ret = TRUE
               /\ df[i] = [Flag |-> "Yes", Affiliation_Type |-> "Direct",
                           Flag_Evidence |-> join(<<";"," ">>, direct_of_candidate.evidence)]

\* a candidate flagged Direct on the evidence of the record
C2_FlaggedDirect ==
    /\ pc = "returned"
    /\ truthy(author_data)
    /\ direct_of_candidate.flagged
    /\ calls = <<"get_author_profile", "verify_author_identity", "check_direct_affiliation">>
    /\ df[i].Flag = "Yes" /\ df[i].Affiliation_Type = "Direct"
    /\ df[i].Flag_Evidence = <<"U","n","i","v","e","r","s","i","t","y"," ","o","f"," ","T","e","h","r","a","n"," ","[","I","r","a","n","]"," ","(","2","0","1","9","-","2","0","2","1",")">>

\* C3: every evidence entry of a direct or indirect check comes from an
\* institution whose display name contains no generic-institution pattern
\* (case-insensitively); a record, or a works list, whose flagged-country
\* institutions are all generic is not flagged.
C3_NoEvidenceFromGeneric ==
    (Called /\ args.fn \in {"direct", "indirect"}) =>
        /\ \A k \in 1..Len(out.sources) : ~has_generic_name(out.sources[k])
        /\ (/\ args.fn = "direct" /\ truthy(args.data)
            /\ \A inst \in record_institutions(args.data) :
                   has_flagged_country(inst, args.flagged_countries)
                       => has_generic_name(inst))
               => (~out.raised /\ ~out.flagged /\ out.evidence = << >>)
        /\ (/\ args.fn = "indirect"
            /\ \A k \in 1..Len(occurrences(args.works)) :
                   has_flagged_country(occurrences(args.works)[k].inst,
                                       args.flagged_countries)
                       => has_generic_name(occurrences(args.works)[k].inst))
               => (~out.raised /\ ~out.flagged /\ out.evidence = << >>)

\* "Ministry of Science, Iran" [IR] with IR flagged: not flagged
C3_MinistrySuppressed ==
    /\ pc = "package" /\ args.fn = "direct"
    /\ args.data = Record(PyStr(<<"A","n","a"," ","L","e","e">>), <<Ministry>>, << >>, PyNone)
    /\ args.flagged_countries = << <<"I","R">> >>
    /\ out.flagged = FALSE /\ out.evidence = << >>

\* C4: every evidence entry of a direct or indirect check comes from an
\* institution whose country_code is present and in the flagged_countries of
\* the call; with no flagged country both checks return (False, []).
C4_OnlyFlaggedCountries ==
    (Called /\ args.fn \in {"direct", "indirect"}) =>
        /\ \A k \in 1..Len(out.sources) :
               has_flagged_country(out.sources[k], args.flagged_countries)
        /\ args.flagged_countries = << >> =>
               (~out.raised /\ ~out.flagged /\ out.evidence = << >>)

\* a record at Technion [IL] and the University of Tehran [IR] with only IR
\* flagged: one evidence entry, from the University of Tehran
C4_OnlyTehranReported ==
    /\ pc = "package" /\ args.fn = "direct"
    /\ args.data = Record(PyStr(<<"A","n","a"," ","L","e","e">>), <<Technion, UnivTehran>>, << >>, PyNone)
    /\ args.flagged_countries = << <<"I","R">> >>
    /\ out.flagged
    /\ out.sources = <<UnivTehran>>

\* the identity of the current candidate was verified
identity_verified == "verified" \in DOMAIN verdict /\ ~verdict.raised /\ verdict.verified

\* C5: a person is flagged only if verify_author_identity returned verified =
\* true for the person's record; with an absent record the person ends with
\* Flag = "No", Affiliation_Type = "None" whatever works are returned.
C5_FlaggedOnlyIfVerified ==
    pc = "returned" =>
        /\ df[i].Flag = "Yes" => identity_verified
        /\ ~truthy(author_data) =>
               (df[i].Flag = "No" /\ df[i].Affiliation_Type = "None")

\* the positions of process_candidate after the identity check
AfterVerify == {"direct", "fetch_works", "indirect", "returned", "raised"}

\* C6: once verify_author_identity has rejected the record, process_candidate
\* has written Flag = "No", Affiliation_Type = "None", Flag_Evidence =
\* "ID Mismatch: OpenAlex shows '<actual name>'" and returned False, having
\* called neither check_direct_affiliation nor get_author_works nor
\* check_indirect_affiliation.
C6_MismatchShortCircuits ==
    (/\ pc \in AfterVerify
     /\ "verified" \in DOMAIN verdict /\ ~verdict.raised /\ ~verdict.verified) =>
        /\ pc = "returned"
        /\ ret = FALSE
        /\ calls = <<"get_author_profile", "verify_author_identity">>
        /\ df[i].Flag = "No"
        /\ df[i].Affiliation_Type = "None"
        /\ df[i].Flag_Evidence =
               <<"I","D"," ","M","i","s","m","a","t","c","h",":"," ","O","p","e","n","A","l","e","x"," ","s","h","o","w","s"," ","'">>
               \o py_str(get(author_data, "display_name", PyStr(<< >>))) \o <<"'">>

\* a rejected candidate whose record would have been flagged by the direct check
C6_MismatchOnFlaggedRecord ==
    /\ pc = "returned"
    /\ ret = FALSE
    /\ direct_of_candidate.flagged
    /\ calls = <<"get_author_profile", "verify_author_identity">>
    /\ df[i] = [Flag |-> "No", Affiliation_Type |-> "None",
                Flag_Evidence |-> <<"I","D"," ","M","i","s","m","a","t","c","h",":"," ","O","p","e","n","A","l","e","x"," ","s","h","o","w","s"," ","'","B","o","b"," ","L","e","e","'">>]

\* the affiliations entries of the record whose institution is evidential
evidential_affiliations(data, flagged_countries) ==
    {k \in 1..Len(list_of(get(data, "affiliations", PyNone))) :
        evidential(py_or(get(list_of(get(data, "affiliations", PyNone))[k],
                             "institution", PyNone), EmptyDict),
                   flagged_countries)}

\* C7: a call of check_direct_affiliation that returns, returns flagged = true
\* exactly when its evidence is non-empty, which is exactly when some
\* institution of the affiliations, the last_known_institutions or the legacy
\* last_known_institution is non-generic and of a flagged country; one such
\* affiliations entry and no last-known field give one evidence entry; an
\* absent record gives (False, []).
C7_DirectFlaggedIffEvidential ==
    (Called /\ args.fn = "direct" /\ ~out.raised) =>
        /\ out.flagged <=> Len(out.evidence) > 0
        /\ ~truthy(args.data) => (~out.flagged /\ out.evidence = << >>)
        /\ truthy(args.data) =>
               /\ out.flagged <=>
                      \E inst \in record_institutions(args.data) :
                          evidential(inst, args.flagged_countries)
               /\ (/\ Cardinality(evidential_affiliations(args.data,
                                                          args.flagged_countries)) = 1
                   /\ list_of(get(args.data, "last_known_institutions", PyNone)) = << >>
                   /\ ~truthy(get(args.data, "last_known_institution", PyNone)))
                      => Len(out.evidence) = 1

\* a record whose only institution is the legacy last_known_institution, in a
\* flagged country: flagged, with one evidence entry
C7_LegacyOnlyFlagged ==
    /\ pc = "package" /\ args.fn = "direct"
    /\ args.data = Record(PyStr(<<"A","n","a"," ","L","e","e">>), << >>, << >>, Technion)
    /\ args.flagged_countries = << <<"I","L">>, <<"I","R">> >>
    /\ out.flagged
    /\ out.evidence = << <<"T","e","c","h","n","i","o","n"," ","[","I","s","r","a","e","l","]"," ","|"," ","C","U","R","R","E","N","T","/","R","E","C","E","N","T">> >>

\* C8 as stated: a call of check_indirect_affiliation that returns, returns
\* flagged = true exactly when some authorship entry of another author than
\* the target lists a non-generic institution of a flagged country, whether
\* or not the author id or the institution id is present.
C8_FlaggedIffCoauthorEvidential ==
    (Called /\ args.fn = "indirect" /\ ~out.raised) =>
        (out.flagged <=>
            \E k \in 1..Len(occurrences(args.works)) :
                /\ differs_from_target(occurrences(args.works)[k], args.target_author_id)
                /\ evidential(occurrences(args.works)[k].inst, args.flagged_countries))

\* C8 amended: a call of check_indirect_affiliation that returns, returns
\* flagged = true exactly when some authorship entry has an author id that is
\* present and, the "https://openalex.org/" prefix removed, differs from
\* target_author_id as passed, and lists a non-generic institution of a
\* flagged country whose institution id is present and non-empty.
C8_FlaggedIffAcceptedOccurrence ==
    (Called /\ args.fn = "indirect" /\ ~out.raised) =>
        /\ out.flagged <=> Len(out.evidence) > 0
        /\ out.flagged <=>
               \E k \in 1..Len(occurrences(args.works)) :
                   accepted(occurrences(args.works)[k], args.target_author_id,
                            args.flagged_countries)

\* a co-author without author id at the University of Tehran [IR], IR
\* flagged: not flagged
C8_CoauthorWithoutIdIgnored ==
    /\ pc = "package" /\ args.fn = "indirect"
    /\ args.works = <<Work1(<<Authorship(NoIdAuthor, <<UnivTehran>>)>>)>>
    /\ args.flagged_countries = << <<"I","R">> >>
    /\ ~out.raised /\ ~out.flagged

\* C9: no evidence entry of the indirect check of process_candidate comes from
\* an authorship entry of the candidate, whether the author id of the entry
\* and the OpenAlex_ID of the row are bare or URL-prefixed.
C9_SelfExcluded ==
    (pc = "returned" /\ "check_indirect_affiliation" \in Range(calls)) =>
        \A k \in 1..Len(out.authors) :
            bare_id(py_str(get(out.authors[k], "id", PyNone))) # bare_id(row.openalex_id)

\* C10: the evidence of a check_indirect_affiliation scan that returns is made
\* from exactly the accepted occurrences that are the first of their
\* institution id, in scan order; no institution id gives two entries.
C10_FirstOccurrencesInScanOrder ==
    (Called /\ args.fn = "indirect" /\ ~out.raised) =>
        /\ Len(out.evidence) = Len(out.sources)
        /\ evidence_occurrences(out) =
               first_per_institution(
                   SelectSeq(occurrences(args.works),
                             LAMBDA occ : accepted(occ, args.target_author_id,
                                                   args.flagged_countries)))
        /\ \A j, k \in 1..Len(out.sources) :
               j # k => get(out.sources[j], "id", PyNone) # get(out.sources[k], "id", PyNone)

\* two works citing the same flagged co-author institution: one evidence entry
C10_SameInstitutionTwice ==
    /\ pc = "package" /\ args.fn = "indirect"
    /\ args.works = <<Work1(<<Authorship(CoAuthor, <<UnivTehran>>)>>),
                      Work2(<<Authorship(CoAuthor, <<UnivTehran>>)>>)>>
    /\ args.flagged_countries = << <<"I","R">> >>
    /\ Len(out.evidence) = 1
    /\ out.sources = <<UnivTehran>>


\* the display names of the institutions the evidence entries were made from
evidence_names(result) ==
    [k \in 1..Len(result.sources) |->
        get(result.sources[k], "display_name", PyStr(<<"U","n","k","n","o","w","n"," ","I","n","s","t","i","t","u","t","i","o","n">>))]

\* C11: within one check_direct_affiliation scan that returns, no institution
\* display name gives more than one evidence entry, whether the institution is
\* repeated in the affiliations history or appears again in
\* last_known_institutions or in the legacy last_known_institution.
C11_OneEntryPerDisplayName ==
    (Called /\ args.fn = "direct" /\ ~out.raised) =>
        \A j, k \in 1..Len(out.sources) :
            j # k => evidence_names(out)[j] # evidence_names(out)[k]

\* the variants of the expected last name and the actual-token-set of the
\* call: the normalized name, its hyphen-removed form and its hyphen-separated
\* parts longer than one character; the tokens of the display name with the
\* same forms of every hyphenated token
last_name_variants == _get_name_variants(_normalize_name(args.expected_last))
actual_token_set ==
    IF truthy(args.actual_name)
    THEN actual_parts_of(_normalize_name(args.actual_name.v))
    ELSE {}

\* C12: verify_author_name returns false whenever no variant of the expected
\* last name is equal to a token of the actual-token-set, however well the
\* first name matches.
C12_FalseWithoutLastName ==
    (Called /\ args.fn = "name" /\ last_name_variants \cap actual_token_set = {}) =>
        out = Returns(FALSE)

\* C13: verify_author_name(first, last, first + " " + last) returns true for
\* every non-empty first and last name, names of several words, hyphenated
\* names and names with punctuation included.
C13_AcceptsFirstSpaceLast ==
    (/\ Called /\ args.fn = "name"
     /\ args.expected_first # << >> /\ args.expected_last # << >>
     /\ args.actual_name = PyStr(full_name(args.expected_first, args.expected_last))) =>
        out = Returns(TRUE)

\* the last-name match and the first-name match of the call as the
\* specification defines them: a last-name variant is a token; a first-name
\* variant (those under 2 characters left out when there are others) is a
\* token or, being of length 3 or more, the prefix of a token, or else the
\* first character of the expected first name is that of a token of length at
\* most 2 or of a token longer than half the expected first name
expected_first_normalized == _normalize_name(args.expected_first)
first_name_variants == _get_name_variants(expected_first_normalized)

last_name_match_of_call == last_name_variants \cap actual_token_set # {}

first_name_match_of_call ==
    \/ \E v \in first_name_variants :
           /\ ~(Len(v) < 2 /\ Cardinality(first_name_variants) > 1)
           /\ \/ v \in actual_token_set
              \/ Len(v) >= 3 /\ \E tok \in actual_token_set : startswith(tok, v)
    \/ /\ expected_first_normalized # << >>
       /\ \E tok \in actual_token_set :
              /\ tok # << >>
              /\ tok[1] = expected_first_normalized[1]
              /\ Len(tok) <= 2 \/ 2 * Len(tok) > Len(expected_first_normalized)

\* C14: the result of verify_author_name for a non-empty display name is the
\* last-name match alone when the normalized expected first name without its
\* spaces has length at most 2, and the last-name match and the first-name
\* match together otherwise; without a last-name match the result is false.
C14_DecisionRule ==
    (Called /\ args.fn = "name" /\ truthy(args.actual_name) /\ ~out.raised) =>
        /\ out.value =
               IF Len(replace(expected_first_normalized, <<" ">>, << >>)) <= 2
               THEN last_name_match_of_call
               ELSE last_name_match_of_call /\ first_name_match_of_call
        /\ ~last_name_match_of_call => out.value = FALSE

\* "Ana" "Lee" against "Ana De Silva": the first name is a token, the last
\* name is not, and the call returns False
C14_FirstNameAloneRejected ==
    /\ pc = "package" /\ args.fn = "name"
    /\ args.expected_first = <<"A","n","a">> /\ args.expected_last = <<"L","e","e">>
    /\ args.actual_name = PyStr(<<"A","n","a"," ","D","e"," ","S","i","l","v","a">>)
    /\ first_name_match_of_call /\ ~last_name_match_of_call
    /\ out = Returns(FALSE)

\* C19: for every expected first name, expected last name and display name
\* given as strings, the empty string, punctuation-only text and hyphens
\* standing alone included, verify_author_name returns a boolean and does not
\* raise.
C19_NameMatcherTotal ==
    (Called /\ args.fn = "name" /\ args.actual_name.t = "str") =>
        (~out.raised /\ out.value \in BOOLEAN)

\* the candidate names of the call and the orders in which a loop can walk them
candidate_names == author_institutions(args.data)

orders(S) == {q \in SeqsOfLen(S, Cardinality(S)) : Range(q) = S}

\* the Jaccard similarity of two keyword sets that are not both empty
jaccard(a, b) == Score(Cardinality(a \cap b), Cardinality(a \cup b))

\* the score the specification gives one candidate: 1.0 when the normalized
\* strings are equal, 0.9 when one contains the other, the Jaccard similarity
\* of the keyword sets when it is greater than 0.3, and 0 otherwise
claimed_score(expected, name) ==
    IF _normalize_institution(expected) = _normalize_institution(name) THEN Score(1, 1)
    ELSE IF \/ contains(_normalize_institution(name), _normalize_institution(expected))
            \/ contains(_normalize_institution(expected), _normalize_institution(name))
         THEN Score(9, 10)
    ELSE IF /\ _get_institution_keywords(expected) \cup _get_institution_keywords(name) # {}
            /\ score_lt(Score(3, 10), jaccard(_get_institution_keywords(expected),
                                              _get_institution_keywords(name)))
         THEN jaccard(_get_institution_keywords(expected), _get_institution_keywords(name))
    ELSE Score(0, 1)

\* the greatest of the claimed scores of the candidates, 0 when there is none
claimed_best(expected, names) ==
    CHOOSE s \in {claimed_score(expected, n) : n \in names} \cup {Score(0, 1)} :
        \A n \in names : score_le(claimed_score(expected, n), s)

\* the result of the matching loop of the copy that was called, walking the
\* candidates in the given order
loop_result(order) ==
    IF pc = "package"
    THEN match_loop([k \in 1..Len(order) |->
                        candidate_score(args.expected_institution, order[k])], Score_0)
    ELSE match_loop([k \in 1..Len(order) |->
                        script_candidate_score(args.expected_institution, order[k])], Score_0)

\* C15: for a non-empty expected institution with keywords and a present
\* record, a call of verify_institution_match that returns, returns
\* (best >= 0.3, best), best being the greatest claimed score of the
\* candidates; every order of the scan gives this result; the score is in
\* [0, 1]; match = false comes with score 0.
C15_BestScoreOverCandidates ==
    (/\ Called /\ args.fn = "institution" /\ ~out.raised
     /\ args.expected_institution # << >>
     /\ _get_institution_keywords(args.expected_institution) # {}
     /\ truthy(args.data)) =>
        /\ out = InstResult(score_le(Score(3, 10),
                                     claimed_best(args.expected_institution, candidate_names)),
                            claimed_best(args.expected_institution, candidate_names))
        /\ \A order \in orders(candidate_names) : loop_result(order) = out
        /\ score_le(Score(0, 1), out.score) /\ score_le(out.score, Score(1, 1))
        /\ ~out.match => out.score = Score(0, 1)

\* "Tehran Medical Sciences" against a record of "Tehran Azad Medical"
\* (keyword overlap 2/4) and "University of Tehran" (contained): (True, 0.9)
C15_ContainedBeatsOverlap ==
    /\ pc = "package" /\ args.fn = "institution"
    /\ args.expected_institution = <<"T","e","h","r","a","n"," ","M","e","d","i","c","a","l"," ","S","c","i","e","n","c","e","s">>
    /\ out = InstResult(TRUE, Score(9, 10))
    /\ candidate_names = { <<"T","e","h","r","a","n"," ","A","z","a","d"," ","M","e","d","i","c","a","l">>, <<"U","n","i","v","e","r","s","i","t","y"," ","o","f"," ","T","e","h","r","a","n">> }
    /\ claimed_score(args.expected_institution, <<"T","e","h","r","a","n"," ","A","z","a","d"," ","M","e","d","i","c","a","l">>) = Score(1, 2)

\* the expected institution has no keyword left once it is normalized and the
\* stop words and the tokens of length <= 2 are removed
no_keyword_left(expected) == kept_words(cleaned_institution(expected)) = << >>

\* C16: verify_institution_match returns (True, 0.0) whenever the expected
\* institution has no keyword left after normalization and the removal of the
\* stop words and of the tokens of length <= 2, whatever the record contains.
C16_NoKeywordIsAMatch ==
    (/\ Called /\ args.fn = "institution" /\ ~out.raised
     /\ no_keyword_left(args.expected_institution)) =>
        out = InstResult(TRUE, Score(0, 1))

\* the display name of the legacy last_known_institution of the record
legacy_name == get(get(args.data, "last_known_institution", PyNone), "display_name", PyNone)

\* C17: the candidate set of verify_institution_match contains the display
\* name of the legacy last_known_institution, and an expected institution
\* equal to it once normalized is reported as a match with score 1.0.
C17_LegacyFieldConsulted ==
    (/\ Called /\ args.fn = "institution" /\ ~out.raised
     /\ args.expected_institution # << >>
     /\ ~no_keyword_left(args.expected_institution)
     /\ truthy(args.data)
     /\ truthy(get(args.data, "last_known_institution", PyNone))) =>
        /\ legacy_name.v \in candidate_names
        /\ _normalize_institution(legacy_name.v)
               = _normalize_institution(args.expected_institution)
             => out = InstResult(TRUE, Score(1, 1))

\* C20: verify_institution_match does not raise, whatever the shape of the
\* entries of affiliations and last_known_institutions: it returns a
\* (bool, score) pair.
C20_InstitutionMatcherTotal ==
    (Called /\ args.fn = "institution") =>
        (~out.raised /\ out.match \in BOOLEAN)

\* C18: check_direct_affiliation and check_indirect_affiliation do not raise
\* for a record or a works list in which entries are null or fields are absent
\* or null: they return a (bool, evidence list) pair.
C18_ChecksNeverRaise ==
    (Called /\ args.fn \in {"direct", "indirect"}) =>
        (~out.raised /\ out.flagged \in BOOLEAN)
----------------------------------------------------------------------------
(* The row process_candidate leaves, and run_background_check around it     *)

\* the entries of a list written one after the other with "; " between two
\* neighbours
RECURSIVE separated(_)
separated(entries) ==
    IF entries = << >> THEN << >>
    ELSE IF Len(entries) = 1 THEN entries[1]
    ELSE separated(SubSeq(entries, 1, Len(entries) - 1)) \o <<";"," ">> \o entries[Len(entries)]

\* the first five entries of a list, in their order
first_five(entries) == [k \in 1..(IF Len(entries) < 5 THEN Len(entries) ELSE 5) |-> entries[k]]

\* the last function process_candidate called
last_call == calls[Len(calls)]

\* C21: when process_candidate has returned for a candidate, the row has Flag
\* "Yes" or "No" and Affiliation_Type "None", "Direct" or "Indirect
\* (Co-author)"; Flag is "Yes" exactly when the type is not "None"; a Direct
\* row carries all entries of the direct evidence joined with "; ", an Indirect
\* row the first five entries of the indirect evidence in discovery order
\* joined with "; "; and the return value is true exactly when Flag is "Yes".
C21_RowAfterCandidate ==
    pc = "returned" =>
        /\ df[i].Flag \in {"Yes", "No"}
        /\ df[i].Affiliation_Type \in {"None", "Direct", "Indirect (Co-author)"}
        /\ (df[i].Flag = "Yes") <=> (df[i].Affiliation_Type # "None")
        /\ df[i].Affiliation_Type = "Direct" =>
              /\ last_call = "check_direct_affiliation"
              /\ df[i].Flag_Evidence = separated(out.evidence)
        /\ df[i].Affiliation_Type = "Indirect (Co-author)" =>
              /\ last_call = "check_indirect_affiliation"
              /\ df[i].Flag_Evidence = separated(first_five(out.evidence))
        /\ ret = (df[i].Flag = "Yes")

\* a candidate flagged through a co-author with six evidence entries, of which
\* the row keeps five
C21_SixthEntryDropped ==
    /\ pc = "returned"
    /\ df[i].Affiliation_Type = "Indirect (Co-author)"
    /\ Len(out.evidence) = 6
    /\ ~contains(df[i].Flag_Evidence, <<"L","a","b"," ","F">>)
    /\ contains(df[i].Flag_Evidence, <<"L","a","b"," ","E">>)
----------------------------------------------------------------------------
(* The evidence list and the Flag_Evidence text made of it                  *)

\* what a reader of Flag_Evidence gets back: text.split(sep), cut at the
\* leftmost occurrences of sep
RECURSIVE split_at(_, _)
split_at(text, sep) ==
    LET hits == {k \in 1..(Len(text) - Len(sep) + 1) : SubSeq(text, k, k + Len(sep) - 1) = sep}
    IN IF hits = {} THEN <<text>>
       ELSE LET k == CHOOSE h \in hits : \A m \in hits : h <= m
            IN <<SubSeq(text, 1, k - 1)>>
               \o split_at(SubSeq(text, k + Len(sep), Len(text)), sep)

\* C22: for every evidence list check_direct_affiliation or
\* check_indirect_affiliation produces, splitting the "; "-joined text on the
\* separator gives back exactly the entries of the list, whatever text the
\* institution name, the co-author name or the work title carries.
C22_EvidenceRoundTrip ==
    (Called /\ ~out.raised /\ out.flagged) =>
        split_at(join(<<";"," ">>, out.evidence), <<";"," ">>) = out.evidence
----------------------------------------------------------------------------
(* is_generic_institution                                                  *)

\* the configured patterns as a set
generic_patterns == Range(GENERIC_INSTITUTION_PATTERNS)

\* the name in lower case without surrounding blanks holds one of the
\* configured patterns
holds_generic_pattern(name) ==
    /\ name # PyNone
    /\ name.v # << >>
    /\ \E p \in generic_patterns : contains(strip(lower(name.v)), p)

\* the pattern list rotated by k places, and each rotation in reverse
rotated(q, k) == [j \in 1..Len(q) |-> q[((j + k - 1) % Len(q)) + 1]]
reversed(q) == [j \in 1..Len(q) |-> q[Len(q) + 1 - j]]
PatternOrders ==
    {rotated(GENERIC_INSTITUTION_PATTERNS, k) : k \in 0..(Len(GENERIC_INSTITUTION_PATTERNS) - 1)}
    \cup {reversed(rotated(GENERIC_INSTITUTION_PATTERNS, k)) :
              k \in 0..(Len(GENERIC_INSTITUTION_PATTERNS) - 1)}

\* C24: is_generic_institution(name) returns true if and only if the
\* lowercased, trimmed name contains one of the configured generic patterns as
\* a substring ("Ministry of Education of China" is generic, "University of
\* Tehran" is not); an empty or missing name is not generic; and the answer is
\* the same for every order of the pattern list.
C24_GenericIffPatternContained ==
    (Called /\ args.fn = "generic") =>
        /\ out = Returns(holds_generic_pattern(args.name))
        /\ args.name = PyStr(<<"M","i","n","i","s","t","r","y"," ","o","f"," ","E","d","u","c","a","t","i","o","n"," ","o","f"," ","C","h","i","n","a">>) => out = Returns(TRUE)
        /\ args.name = PyStr(<<"U","n","i","v","e","r","s","i","t","y"," ","o","f"," ","T","e","h","r","a","n">>) => out = Returns(FALSE)
        /\ args.name \in {PyNone, PyStr(<< >>)} => out = Returns(FALSE)
        /\ truthy(args.name) =>
              \A order \in PatternOrders :
                  generic_loop(order, strip(lower(args.name.v))) = out.value

\* a name that holds a pattern in the middle, in capitals, and only the
\* shortest of the ministry patterns
C24_MinistryInTheMiddle ==
    /\ Called
    /\ args.fn = "generic"
    /\ args.name = PyStr(<<"T","h","e"," ","M","i","n","i","s","t","r","y"," ","o","f"," ","R","o","a","d","s"," ","o","f"," ","C","h","i","n","a">>)
    /\ out = Returns(TRUE)
----------------------------------------------------------------------------
(* The check functions called twice                                        *)

CalledAgain == pc \in {"package_again", "script_again"}

----------------------------------------------------------------------------
(* Last-known institutions in check_direct_affiliation                      *)

\* the last-known institutions of an author record: the entries of
\* last_known_institutions and the legacy last_known_institution
last_known_of(data) ==
    {x \in Range(list_of(get(data, "last_known_institutions", PyNone)))
           \cup {get(data, "last_known_institution", PyNone)} : is_dict(x)}

\* C25: in check_direct_affiliation a last-known institution that is
\* non-generic and in a flagged country is left out of the evidence only when
\* an entry of the same scan was produced for an institution with exactly the
\* same display name; one whose name merely occurs inside another entry's text
\* still gets its own entry.  So the display name of every such institution is
\* the display name of an institution some entry was made from.
C25_LeftOutOnlyForSameName ==
    (Called /\ args.fn = "direct" /\ is_dict(args.data) /\ ~out.raised) =>
        \A inst \in last_known_of(args.data) :
            evidential(inst, args.flagged_countries) =>
                get(inst, "display_name", PyStr(<<"U","n","k","n","o","w","n"," ","I","n","s","t","i","t","u","t","i","o","n">>))
                    \in Range(evidence_names(out))

\* the same statement for the script's copy alone
ScriptLeavesOutOnlySameName ==
    pc = "script" => C25_LeftOutOnlyForSameName
----------------------------------------------------------------------------
(* The reasons of verify_author_identity                                    *)

\* C26: verify_author_identity never returns the reason "Name verified (no
\* institution to check)": for an empty expected institution
\* verify_institution_match returns (True, 0.0), so a matching name with an
\* empty expected institution gives "Name and institution verified (score:
\* 0.00)", and the branch for a name match, an institution mismatch and an
\* empty expected institution is never taken.
C26_NoInstitutionReasonNeverReturned ==
    (Called /\ args.fn = "identity" /\ ~out.raised) =>
        /\ out.reason # <<"N","a","m","e"," ","v","e","r","i","f","i","e","d"," ","(","n","o"," ","i","n","s","t","i","t","u","t","i","o","n"," ","t","o"," ","c","h","e","c","k",")">>
        /\ (args.expected_institution = << >> /\ truthy(args.data)) =>
              /\ verify_institution_match(args.expected_institution, args.data)
                     = InstResult(TRUE, Score(0, 1))
              /\ script_verify_institution_match(args.expected_institution, args.data)
                     = InstResult(TRUE, Score(0, 1))
              /\ out.verified =>
                     out.reason = <<"N","a","m","e"," ","a","n","d"," ","i","n","s","t","i","t","u","t","i","o","n"," ","v","e","r","i","f","i","e","d"," ","(","s","c","o","r","e",":"," ","0",".","0","0",")">>

\* a matching name, no expected institution, and a record with University of Tehran in
\* its history
C26_VerifiedWithScoreZero ==
    /\ Called
    /\ args.fn = "identity"
    /\ args.expected_institution = << >>
    /\ args.data = Record(PyStr(<<"A","n","a"," ","L","e","e">>), <<UnivTehran>>, << >>, PyNone)
    /\ out = Verified(TRUE, <<"N","a","m","e"," ","a","n","d"," ","i","n","s","t","i","t","u","t","i","o","n"," ","v","e","r","i","f","i","e","d"," ","(","s","c","o","r","e",":"," ","0",".","0","0",")">>)
----------------------------------------------------------------------------
(* The token that supports the first name                                   *)

\* the token supports the expected first name: it is a first-name variant
\* (those under 2 characters left out when there are others), or begins with
\* one of length 3 or more, or begins with the first character of the expected
\* first name and is of length at most 2 or longer than half that name
supports_first_name(tok) ==
    \/ \E v \in first_name_variants :
           /\ ~(Len(v) < 2 /\ Cardinality(first_name_variants) > 1)
           /\ v = tok \/ (Len(v) >= 3 /\ startswith(tok, v))
    \/ /\ expected_first_normalized # << >>
       /\ tok # << >>
       /\ tok[1] = expected_first_normalized[1]
       /\ Len(tok) <= 2 \/ 2 * Len(tok) > Len(expected_first_normalized)

\* C27: when the expected first name has more than 2 characters,
\* verify_author_name accepts a display name only if a token other than the
\* one that matched the expected last name supports the first name; expected
\* first "Sarah", last "Smith" against "John Smith" is rejected.
C27_LastNameTokenNeverSupportsFirst ==
    (/\ Called /\ args.fn = "name"
     /\ Len(replace(expected_first_normalized, <<" ">>, << >>)) > 2
     /\ out = Returns(TRUE)) =>
        \E tok \in actual_token_set \ last_name_variants : supports_first_name(tok)
----------------------------------------------------------------------------
(* The orders in which verify_author_name walks its sets                    *)

\* the outcomes the call of this state can have, over all orders in which the
\* sets of tokens and of variants are walked
outcomes_of_call ==
    IF pc = "script"
    THEN script_verify_author_name(args.expected_first, args.expected_last,
                                   args.actual_name)
    ELSE verify_author_name(args.expected_first, args.expected_last, args.actual_name)

\* C28: for given expected first name, expected last name and display name
\* the outcome of verify_author_name (true, false, or a raised error) is the
\* same for every order in which the set of actual-name tokens and the sets of
\* expected-name variants are walked.
C28_OneOutcomePerInput ==
    (Called /\ args.fn = "name") => outcomes_of_call = {out}
----------------------------------------------------------------------------
(* Exceptions and interruption in run_background_check                      *)

\* the loop was left at candidate i by a KeyboardInterrupt: the results are
\* being saved, or are saved, before the last candidate was done with
interrupted == pc \in {"save", "done"} /\ i <= NumCandidates

----------------------------------------------------------------------------
(* The package and the script                                               *)

\* what the package's copy and the script's copy of the function of this call
\* give for its arguments: the outcomes of a matcher, and for a check whether
\* it raises and the flagged boolean
package_verdict ==
    CASE args.fn = "generic" ->
             IF is_generic_institution_raises(args.name) THEN Raises
             ELSE Returns(is_generic_institution(args.name))
      [] args.fn = "name" ->
             verify_author_name(args.expected_first, args.expected_last, args.actual_name)
      [] args.fn = "institution" ->
             verify_institution_match(args.expected_institution, args.data)
      [] args.fn = "identity" ->
             verify_author_identity(args.expected_first, args.expected_last,
                                    args.expected_institution, args.data)
      [] args.fn = "direct" ->
             [raised |-> check_direct_affiliation(args.data, args.flagged_countries).raised,
              flagged |-> check_direct_affiliation(args.data, args.flagged_countries).flagged]
      [] args.fn = "indirect" ->
             [raised |-> check_indirect_affiliation(args.works, args.target_author_id,
                                                    args.flagged_countries).raised,
              flagged |-> check_indirect_affiliation(args.works, args.target_author_id,
                                                     args.flagged_countries).flagged]

script_verdict ==
    CASE args.fn = "generic" ->
             IF script_is_generic_institution_raises(args.name) THEN Raises
             ELSE Returns(script_is_generic_institution(args.name))
      [] args.fn = "name" ->
             script_verify_author_name(args.expected_first, args.expected_last,
                                       args.actual_name)
      [] args.fn = "institution" ->
             script_verify_institution_match(args.expected_institution, args.data)
      [] args.fn = "identity" ->
             script_verify_author_identity(args.expected_first, args.expected_last,
                                           args.expected_institution, args.data)
      [] args.fn = "direct" ->
             [raised |-> script_check_direct_affiliation(args.data,
                                                         args.flagged_countries).raised,
              flagged |-> script_check_direct_affiliation(args.data,
                                                          args.flagged_countries).flagged]
      [] args.fn = "indirect" ->
             [raised |-> script_check_indirect_affiliation(args.works, args.target_author_id,
                                                           args.flagged_countries).raised,
              flagged |-> script_check_indirect_affiliation(args.works, args.target_author_id,
                                                            args.flagged_countries).flagged]

\* C30: the two copies of the engine give the same verdicts: for every input
\* is_generic_institution, verify_author_name, verify_institution_match and
\* verify_author_identity of the package return the same result as those of
\* the script, and check_direct_affiliation and check_indirect_affiliation the
\* same flagged boolean, whatever the evidence entries are.
C30_CopiesAgree ==
    Called => package_verdict = script_verdict
====
